---- MODULE Spec2Model ----
(***************************************************************************)
(* A model of the ocean demo: the FFT simulation (OceanFFT), the LOD grid  *)
(* (OceanLODGrid), the orchestrating OceanSystem and the planar reflection *)
(* pass, as state machines.                                                *)
(*                                                                         *)
(* Numbers.  A JavaScript number that stands for a real quantity is kept   *)
(* in thousandths (1.75 is 1750, 0.01 is 10, 256 is 256000).  Counts and   *)
(* indices (the resolution once ensurePowerOfTwo has floored it, level     *)
(* indices, segment counts) are plain integers.  Time steps are kept in    *)
(* ticks of 1/240 s, so that 1/240, 1/60 and 0.1 are the integers 1, 4 and *)
(* 24.  Angles in radians are thousandths of a radian.                     *)
(***************************************************************************)
EXTENDS Integers, Sequences, FiniteSets, TLC

VARIABLES
    fft,            \* the OceanFFT held (this.fft), or NULL
    lodGrid,        \* the OceanLODGrid held (this.lodGrid), or NULL
    renderer,       \* the WebGLRenderer: render target bound, xr and shadow flags
    error,          \* the exception the last call ended with, or NoError
    lastCall,       \* the last call made from outside, with its arguments
    presets,        \* the exported QUALITY_PRESETS object
    params,         \* OceanSystem.params
    qualityPreset,  \* OceanSystem.qualityPreset
    quality,        \* OceanSystem.quality
    material,       \* OceanSystem.material, or NULL
    uniforms,       \* OceanSystem.uniforms, or NULL
    root,           \* OceanSystem.root: its children, whether it is in the scene
    pc,             \* where OceanSystem.rebuild stands, or "idle"
    gen,            \* the number of rebuilds begun: names the objects of each
    live,           \* the GPU resources created and not disposed
    disposeCalls,   \* how often dispose() was called on each resource
    reflection,     \* the PlanarReflectionPass, or NULL
    textures,       \* what the simulation's textures hold, where that is
                    \* followed texel by texel, or NULL
    viewport        \* the browser window: window.innerWidth and innerHeight,
                    \* and whether its resize event is still to be dispatched

sysVars == <<presets, params, qualityPreset, quality, material, uniforms, root,
             pc, gen, live, disposeCalls, reflection, viewport>>
vars == <<fft, lodGrid, renderer, error, lastCall, presets, params,
          qualityPreset, quality, material, uniforms, root, pc, gen, live,
          disposeCalls, reflection, textures, viewport>>

NULL == [null |-> TRUE]
NoError == "none"
PowerOfTwoError == "FFT resolution must be power of two"
LevelSizesError == "Ocean LOD requires at least 2 level sizes."

\* The window the page is opened in: no resize event is outstanding.
InitialViewport ==
    [innerWidth |-> 1280, innerHeight |-> 720, resizePending |-> FALSE]

----------------------------------------------------------------------------
(* Arithmetic of the fixed-point representation.                           *)

Max(a, b) == IF a >= b THEN a ELSE b
Min(a, b) == IF a <= b THEN a ELSE b

\* Math.floor of a number kept in thousandths, as a plain integer.
Floor(value) == value \div 1000

\* Math.round(a / b) for b > 0: floor(a/b + 1/2).
RoundDiv(a, b) == (2 * a + b) \div (2 * b)

\* JavaScript's a & b on non-negative 32-bit integers.
RECURSIVE BitAnd(_, _)
BitAnd(a, b) ==
    IF a = 0 \/ b = 0 THEN 0
    ELSE (IF a % 2 = 1 /\ b % 2 = 1 THEN 1 ELSE 0) + 2 * BitAnd(a \div 2, b \div 2)

----------------------------------------------------------------------------
(* OceanSystem.js: the quality presets.                                    *)

PresetNames == {"performance", "balanced", "cinematic"}

QUALITY_PRESETS_repeatedLevel ==
    [performance |->
        [fftResolution |-> 128000, simulationSize |-> 840000,
         levelSizes |-> <<224000, 448000, 896000, 1792000, 3584000, 7168000, 14336000>>,
         baseCellSize |-> 1750, ringOverlap |-> 400, displacementScale |-> 950],
     balanced |->
        [fftResolution |-> 256000, simulationSize |-> 980000,
         levelSizes |-> <<256000, 512000, 1024000, 2048000, 4096000, 8192000, 16384000>>,
         baseCellSize |-> 1200, ringOverlap |-> 500, displacementScale |-> 1100],
     cinematic |->
        [fftResolution |-> 512000, simulationSize |-> 1180000,
         levelSizes |-> <<320000, 640000, 1280000, 2560000, 2560000, 10240000, 20480000>>,
         baseCellSize |-> 950, ringOverlap |-> 600, displacementScale |-> 1240]]

QUALITY_PRESETS ==
    [performance |->
        [fftResolution |-> 128000, simulationSize |-> 840000,
         levelSizes |-> <<224000, 448000, 896000, 1792000, 3584000, 7168000, 14336000>>,
         baseCellSize |-> 1750, ringOverlap |-> 400, displacementScale |-> 950],
     balanced |->
        [fftResolution |-> 256000, simulationSize |-> 980000,
         levelSizes |-> <<256000, 512000, 1024000, 2048000, 4096000, 8192000, 16384000>>,
         baseCellSize |-> 1200, ringOverlap |-> 500, displacementScale |-> 1100],
     cinematic |->
        [fftResolution |-> 512000, simulationSize |-> 1180000,
         levelSizes |-> <<320000, 640000, 1280000, 2560000, 5120000, 10240000, 20480000>>,
         baseCellSize |-> 950, ringOverlap |-> 600, displacementScale |-> 1240]]

----------------------------------------------------------------------------
(* OceanFFT.js                                                             *)

\* The result of a call that may throw.
Returned(v) == [threw |-> FALSE, value |-> v]
Thrown == [threw |-> TRUE, value |-> 0]

ensurePowerOfTwo_unchecked(value) ==
    Returned(Max(2, Floor(value)))

ensurePowerOfTwo_noClamp(value) ==
    LET integerValue == Max(0, Floor(value))
    IN  IF BitAnd(integerValue, Max(0, integerValue - 1)) # 0
        THEN Thrown
        ELSE Returned(integerValue)

ensurePowerOfTwo(value) ==
    LET integerValue == Max(2, Floor(value))
    IN  IF BitAnd(integerValue, integerValue - 1) # 0
        THEN Thrown
        ELSE Returned(integerValue)

optionalParameter(options, key, defaultValue) ==
    IF key \in DOMAIN options THEN options[key] ELSE defaultValue

\* Math.cos and Math.sin, in thousandths, of the angles the model uses
\* (thousandths of a radian): 0, pi/2, 140 degrees and 225 degrees.
Cos(radians) ==
    CASE radians = 0 -> 1000
      [] radians = 1570 -> 0
      [] radians = 2443 -> -766
      [] radians = 3927 -> -707
Sin(radians) ==
    CASE radians = 0 -> 0
      [] radians = 1570 -> 1000
      [] radians = 2443 -> 643
      [] radians = 3927 -> -707

\* OceanFFT.setWind without the lower bound on the speed.
setWind_unclamped(self, speed, directionRadians) ==
    [self EXCEPT
        !.windSpeed = speed,
        !.windDirection = directionRadians,
        !.windVector = <<(Cos(directionRadians) * speed) \div 1000,
                         (Sin(directionRadians) * speed) \div 1000>>,
        !.needsSpectrumInit = TRUE]

\* OceanFFT.setWind
setWind(self, speed, directionRadians) ==
    LET windSpeed == Max(10, speed)
    IN  [self EXCEPT
            !.windSpeed = windSpeed,
            !.windDirection = directionRadians,
            !.windVector = <<(Cos(directionRadians) * windSpeed) \div 1000,
                             (Sin(directionRadians) * windSpeed) \div 1000>>,
            !.needsSpectrumInit = TRUE]

\* OceanFFT.setSize
\* OceanFFT.setSize without raising the dirty flag.
setSize_keepsSpectrum(self, size) ==
    [self EXCEPT !.size = Max(32000, size)]

setSize(self, size) ==
    [self EXCEPT !.size = Max(32000, size), !.needsSpectrumInit = TRUE]

\* OceanFFT.setChoppiness
setChoppiness(self, choppiness) ==
    [self EXCEPT !.choppiness = Max(0, choppiness)]

\* What initialSpectrumFramebuffer holds: nothing yet, or the spectrum
\* generated from a wind vector and a domain size.
NoSpectrum == [generated |-> FALSE, wind |-> <<0, 0>>, size |-> 0]

\* One renderer.render call of the simulation: the material's input
\* textures, the render target bound, and u_subtransformSize (0 when the
\* material has none).
Pass(name, inputs, target, subtransformSize) ==
    [pass |-> name, inputs |-> inputs, target |-> target,
     subtransformSize |-> subtransformSize]

RECURSIVE Log2(_)
Log2(n) == IF n <= 1 THEN 0 ELSE 1 + Log2(n \div 2)

\* OceanFFT.#renderInitialSpectrum
renderInitialSpectrum(self) ==
    [self EXCEPT
        !.overrideMaterial = "materialInitialSpectrum",
        !.initialSpectrum = [generated |-> TRUE, wind |-> self.windVector,
                             size |-> self.size],
        !.passes = Append(@, Pass("initialSpectrum", {}, "initialSpectrum", 0)),
        !.needsSpectrumInit = FALSE]

\* OceanFFT.#renderWavePhase rendering into the buffer it reads.
renderWavePhase_inPlace(self) ==
    LET input == IF self.pingPhase THEN "pingPhase" ELSE "pongPhase"
    IN  [self EXCEPT
            !.overrideMaterial = "materialPhase",
            !.initialized = TRUE,
            !.passes = Append(@, Pass("phase", {input}, input, 0)),
            !.pingPhase = ~self.pingPhase]

\* OceanFFT.#renderWavePhase
renderWavePhase(self) ==
    LET input == IF ~self.initialized THEN "seedPhase"
                 ELSE IF self.pingPhase THEN "pingPhase" ELSE "pongPhase"
        target == IF self.pingPhase THEN "pongPhase" ELSE "pingPhase"
    IN  [self EXCEPT
            !.overrideMaterial = "materialPhase",
            !.initialized = TRUE,
            !.passes = Append(@, Pass("phase", {input}, target, 0)),
            !.pingPhase = ~self.pingPhase]

\* OceanFFT.#renderSpectrum reading the phase buffer of the frame before.
renderSpectrum_stalePhase(self) ==
    LET phases == IF self.pingPhase THEN "pongPhase" ELSE "pingPhase"
    IN  [self EXCEPT
            !.overrideMaterial = "materialSpectrum",
            !.passes = Append(@, Pass("spectrum", {"initialSpectrum", phases},
                                      "spectrum", 0))]

\* OceanFFT.#renderSpectrum
renderSpectrum(self) ==
    LET phases == IF self.pingPhase THEN "pingPhase" ELSE "pongPhase"
    IN  [self EXCEPT
            !.overrideMaterial = "materialSpectrum",
            !.passes = Append(@, Pass("spectrum", {"initialSpectrum", phases},
                                      "spectrum", 0))]

\* OceanFFT.#renderSpectrumFFT: the horizontal loop from pass i on.
RECURSIVE horizontalPasses(_, _)
horizontalPasses(iterations, i) ==
    IF i >= iterations THEN << >>
    ELSE LET size == 2 ^ ((i % iterations) + 1)
             pass == IF i = 0
                     THEN Pass("horizontal", {"spectrum"}, "pingTransform", size)
                     ELSE IF i % 2 = 1
                     THEN Pass("horizontal", {"pingTransform"}, "pongTransform", size)
                     ELSE Pass("horizontal", {"pongTransform"}, "pingTransform", size)
         IN  <<pass>> \o horizontalPasses(iterations, i + 1)

\* OceanFFT.#renderSpectrumFFT: the vertical loop from pass i on.
RECURSIVE verticalPasses(_, _)
verticalPasses(iterations, i) ==
    IF i >= iterations * 2 THEN << >>
    ELSE LET size == 2 ^ ((i % iterations) + 1)
             pass == IF i = iterations * 2 - 1
                     THEN Pass("vertical",
                               {IF iterations % 2 = 0 THEN "pingTransform"
                                                      ELSE "pongTransform"},
                               "displacementMap", size)
                     ELSE IF i % 2 = 1
                     THEN Pass("vertical", {"pingTransform"}, "pongTransform", size)
                     ELSE Pass("vertical", {"pongTransform"}, "pingTransform", size)
         IN  <<pass>> \o verticalPasses(iterations, i + 1)

\* OceanFFT.#renderSpectrumFFT
renderSpectrumFFT(self) ==
    LET iterations == Log2(self.resolution)
    IN  [self EXCEPT
            !.overrideMaterial = "materialOceanVertical",
            !.passes = @ \o horizontalPasses(iterations, 0)
                         \o verticalPasses(iterations, iterations)]

\* OceanFFT.#renderNormalMap
renderNormalMap(self) ==
    [self EXCEPT
        !.overrideMaterial = "materialNormal",
        !.passes = Append(@, Pass("normal", {"displacementMap"}, "normalMap", 0))]

clampDeltaTime_lowerOnly(deltaTime) == Max(1, deltaTime)

\* OceanFFT.update: Math.min(0.1, Math.max(1.0 / 240.0, deltaTime)).
\* deltaTime is in ticks of 1/240 s: the clamp to [1/240, 0.1] is the clamp
\* to [1, 24].
clampDeltaTime(deltaTime) == Min(24, Max(1, deltaTime))

\* OceanFFT.update extracting the normals before the transform has run.
update_normalBeforeTransform(self, deltaTime) ==
    LET start == [self EXCEPT !.deltaTime = clampDeltaTime(deltaTime),
                              !.passes = << >>]
        spectrum == IF start.needsSpectrumInit
                    THEN renderInitialSpectrum(start) ELSE start
        done == renderSpectrumFFT(renderNormalMap(renderSpectrum(
                    renderWavePhase(spectrum))))
    IN  [done EXCEPT !.overrideMaterial = "none"]

\* OceanFFT.update, on the simulation object.
update(self, deltaTime) ==
    LET start == [self EXCEPT !.deltaTime = clampDeltaTime(deltaTime),
                              !.passes = << >>]
        spectrum == IF start.needsSpectrumInit
                    THEN renderInitialSpectrum(start) ELSE start
        done == renderNormalMap(renderSpectrumFFT(renderSpectrum(
                    renderWavePhase(spectrum))))
    IN  [done EXCEPT !.overrideMaterial = "none"]

\* OceanFFT.update without its last line: the normal map stays bound.
rendererAfterUpdate_keepsLastTarget(rendererBefore, self) ==
    [rendererBefore EXCEPT !.renderTarget = self.passes[Len(self.passes)].target]

\* OceanFFT.update, on the renderer: the target of the last pass is bound
\* until the target saved on entry is bound again.
rendererAfterUpdate(rendererBefore, self) ==
    LET currentRenderTarget == rendererBefore.renderTarget
        afterPasses == [rendererBefore EXCEPT
                            !.renderTarget = self.passes[Len(self.passes)].target]
    IN  [afterPasses EXCEPT !.renderTarget = currentRenderTarget]

\* The subtransform shader without the fold into the lower half.
evenIndex_unfolded(index, subtransformSize) == index

\* The subtransform shader: floor(index / u_subtransformSize)
\* * (u_subtransformSize * 0.5) + mod(index, u_subtransformSize * 0.5),
\* index being the texel's number along the transform's direction.
evenIndex(index, subtransformSize) ==
    (index \div subtransformSize) * (subtransformSize \div 2)
        + (index % (subtransformSize \div 2))

\* The subtransform shader: the texel the odd sample is read at.
oddIndex(index, subtransformSize, transformSize) ==
    evenIndex(index, subtransformSize) + transformSize \div 2

\* new OceanFFT(renderer, options): the object, or Thrown.
NewOceanFFT(options, id) ==
    LET resolution == ensurePowerOfTwo(optionalParameter(options, "resolution", 256000))
    IN  IF resolution.threw THEN Thrown
        ELSE Returned(
            LET created ==
                [id |-> id,
                 resolution |-> resolution.value,
                 size |-> optionalParameter(options, "size", 1000000),
                 choppiness |-> optionalParameter(options, "choppiness", 1600),
                 windSpeed |-> optionalParameter(options, "windSpeed", 12000),
                 windDirection |-> optionalParameter(options, "windDirection", 0),
                 deltaTime |-> 4,
                 windVector |-> <<0, 0>>,
                 initialized |-> FALSE,
                 needsSpectrumInit |-> TRUE,
                 pingPhase |-> TRUE,
                 initialSpectrum |-> NoSpectrum,
                 overrideMaterial |-> "none",
                 passes |-> << >>]
            IN  [setWind(created, created.windSpeed, created.windDirection)
                    EXCEPT !.initialized = FALSE,
                           !.needsSpectrumInit = TRUE,
                           !.pingPhase = TRUE])

----------------------------------------------------------------------------
(* fftShaders.js, texel by texel.  A texture is a function from the bins   *)
(* <<x, y>> of the N x N grid; texture coordinates are counted in half     *)
(* texels, so that the centre of texel x is 2x + 1.  Phases are in         *)
(* thousandths of a radian.                                                *)

\* 2.0 * PI, PI being the constant of <common>.
TwoPi == 6283
\* const float G = 9.81, const float KM = 370.0
G == 9810
KM == 370

Bins(resolution) == (0 .. resolution - 1) \X (0 .. resolution - 1)

\* The largest r with r * r <= n, for n below 2^30.
RECURSIVE SqrtFrom(_, _, _)
SqrtFrom(n, r, step) ==
    IF step = 0 THEN r
    ELSE IF (r + step) * (r + step) <= n
         THEN SqrtFrom(n, r + step, step \div 2)
         ELSE SqrtFrom(n, r, step \div 2)
Sqrt(n) == SqrtFrom(n, 0, 16384)

\* (coordinates.x < u_resolution * 0.5) ? coordinates.x : coordinates.x - u_resolution
signedIndex(coordinate, resolution) ==
    IF 2 * coordinate < resolution THEN coordinate ELSE coordinate - resolution

\* length((2.0 * PI * vec2(n, m)) / u_size), in thousandths.
waveLength(bin, resolution, size) ==
    LET n == signedIndex(bin[1], resolution)
        m == signedIndex(bin[2], resolution)
    IN  (TwoPi * Sqrt((n * n + m * m) * 1000000)) \div size

\* omega(k) = sqrt(G * k * (1.0 + k * k / (KM * KM))), in thousandths.
omega(k) ==
    Sqrt(((G * k) \div 1000) * (1000 + (k * k) \div (KM * KM * 1000)))

\* texture2D on a NearestFilter texture: the texel the coordinate falls in,
\* the coordinate wrapped as the texture's wrapS and wrapT say.
texture2D(texels, resolution, uv, wrap) ==
    LET texel(c) == IF wrap = "RepeatWrapping"
                    THEN (c \div 2) % resolution
                    ELSE Max(0, Min(resolution - 1, c \div 2))
    IN  texels[<<texel(uv[1]), texel(uv[2])>>]

\* vUV at the fragment of a bin.
vUV(bin) == <<2 * bin[1] + 1, 2 * bin[2] + 1>>

phaseShader_unwrapped(phases, bin, resolution, size, deltaTime) ==
    texture2D(phases, resolution, vUV(bin), "ClampToEdgeWrapping")
        + (omega(waveLength(bin, resolution, size)) * deltaTime) \div 240

\* FFTShaders.phase: the phase the fragment of a bin writes.
phaseShader(phases, bin, resolution, size, deltaTime) ==
    LET phase == texture2D(phases, resolution, vUV(bin), "ClampToEdgeWrapping")
        deltaPhase == (omega(waveLength(bin, resolution, size)) * deltaTime) \div 240
    IN  (phase + deltaPhase) % TwoPi

\* (2.0 * PI * vec2(n, m)) / u_size, in thousandths.
waveVector(bin, resolution, size) ==
    <<(TwoPi * signedIndex(bin[1], resolution) * 1000) \div size,
      (TwoPi * signedIndex(bin[2], resolution) * 1000) \div size>>

\* FFTShaders.initialSpectrum: the amplitude the fragment of a bin writes.
\* It is real; it is 0.0 where K is zero and elsewhere the value the
\* spectrum formula gives for K, the wind and the size, named by them.
initialSpectrumShader(bin, resolution, wind, size) ==
    LET K == waveVector(bin, resolution, size)
    IN  [zero |-> (K[1] = 0 /\ K[2] = 0),
         bin |-> bin,
         index |-> <<signedIndex(bin[1], resolution),
                     signedIndex(bin[2], resolution)>>,
         wind |-> wind,
         size |-> size,
         conjugated |-> FALSE]

initialSpectrumWrap_clamped == "ClampToEdgeWrapping"

\* nearestRepeatParams, the parameters of initialSpectrumFramebuffer.
initialSpectrumWrap == "RepeatWrapping"

\* FFTShaders.spectrum: what the fragment of a bin assembles.  h is
\* h0 * e^(i phase) + h0Star * e^(-i phase), or zero where the wave vector
\* is zero; hX and hZ are h scaled by the choppiness.
spectrumShader(initialSpectrum, phases, bin, resolution, size, choppiness) ==
    LET K == waveVector(bin, resolution, size)
        uv == vUV(bin)
        mirrored == <<2 * resolution - uv[1] + 2, 2 * resolution - uv[2] + 2>>
        h0 == texture2D(initialSpectrum, resolution, uv, initialSpectrumWrap)
        read == texture2D(initialSpectrum, resolution, mirrored, initialSpectrumWrap)
        h0Star == [read EXCEPT !.conjugated = ~@]
    IN  [zero |-> (K[1] = 0 /\ K[2] = 0),
         h0 |-> h0,
         h0Star |-> h0Star,
         phase |-> texture2D(phases, resolution, uv, "ClampToEdgeWrapping"),
         choppiness |-> choppiness]

\* OceanFFT.#generateSeedPhaseTexture: Math.random() * Math.PI * 2.0 per
\* texel, Math.random() given in thousandths.
generateSeedPhaseTexture(resolution, randoms) ==
    [bin \in Bins(resolution) |-> (randoms[bin] * TwoPi) \div 1000]

\* A render target nothing was rendered into yet.
EmptyTarget(resolution) ==
    [written |-> FALSE, texels |-> [bin \in Bins(resolution) |-> 0]]

\* The textures of a simulation just constructed.
NewTextures(self, randoms) ==
    [pingPhaseTexture |-> generateSeedPhaseTexture(self.resolution, randoms),
     pingPhaseFramebuffer |-> EmptyTarget(self.resolution),
     pongPhaseFramebuffer |-> EmptyTarget(self.resolution),
     initialSpectrumFramebuffer |-> [written |-> FALSE],
     spectrumFramebuffer |-> [written |-> FALSE],
     updates |-> 0]

\* OceanFFT.#renderInitialSpectrum, on the textures.
renderInitialSpectrumTextures(tex, self) ==
    [tex EXCEPT !.initialSpectrumFramebuffer =
        [written |-> TRUE,
         texels |-> [bin \in Bins(self.resolution) |->
                        initialSpectrumShader(bin, self.resolution,
                                              self.windVector, self.size)]]]

\* OceanFFT.#renderSpectrum, on the textures; self is the simulation as
\* the pass finds it.
renderSpectrumTextures(tex, self) ==
    LET phases == IF self.pingPhase THEN tex.pingPhaseFramebuffer.texels
                                    ELSE tex.pongPhaseFramebuffer.texels
    IN  [tex EXCEPT !.spectrumFramebuffer =
            [written |-> TRUE,
             texels |-> [bin \in Bins(self.resolution) |->
                            spectrumShader(tex.initialSpectrumFramebuffer.texels,
                                           phases, bin, self.resolution,
                                           self.size, self.choppiness)]]]

\* OceanFFT.#renderWavePhase, on the textures; self is the simulation as
\* the pass finds it.
renderWavePhaseTextures(tex, self) ==
    LET phases == IF ~self.initialized THEN tex.pingPhaseTexture
                  ELSE IF self.pingPhase THEN tex.pingPhaseFramebuffer.texels
                                         ELSE tex.pongPhaseFramebuffer.texels
        rendered == [written |-> TRUE,
                     texels |-> [bin \in Bins(self.resolution) |->
                                    phaseShader(phases, bin, self.resolution,
                                                self.size, self.deltaTime)]]
    IN  IF self.pingPhase
        THEN [tex EXCEPT !.pongPhaseFramebuffer = rendered]
        ELSE [tex EXCEPT !.pingPhaseFramebuffer = rendered]

\* OceanFFT.update, on the textures.
updateTextures(tex, self, deltaTime) ==
    LET start == [self EXCEPT !.deltaTime = clampDeltaTime(deltaTime)]
        spectrum == IF start.needsSpectrumInit
                    THEN renderInitialSpectrumTextures(tex, start) ELSE tex
        phased == renderWavePhaseTextures(spectrum, start)
        assembled == renderSpectrumTextures(phased, renderWavePhase(start))
    IN  [assembled EXCEPT !.updates = @ + 1]

----------------------------------------------------------------------------
(* OceanLODGrid.js                                                         *)

\* clampSegments(num / den): min(512, max(2, Math.round(num / den))).
clampSegments(num, den) == Min(512, Max(2, RoundDiv(num, den)))

\* createPatch: the mesh and its PlaneGeometry.  segX and segY are the
\* quotients <<numerator, denominator>> the caller divides.
createPatch(width, height, segX, segY, offsetX, offsetZ, levelIndex) ==
    [width |-> width,
     height |-> height,
     widthSegments |-> clampSegments(segX[1], segX[2]),
     heightSegments |-> clampSegments(segY[1], segY[2]),
     offsetX |-> offsetX,
     offsetZ |-> offsetZ,
     levelIndex |-> levelIndex,
     renderOrder |-> 1000 - levelIndex]

\* The quantities #build derives for ring i (1 <= i < levels.length);
\* levels[i] here is this.levels[i - 1] there.
ringInner(levels, i) == levels[i]
ringOuter(levels, i) == levels[i + 1]
ringWidth(levels, i) == (ringOuter(levels, i) - ringInner(levels, i)) \div 2
ringCellSize(baseCellSize, i) == baseCellSize * 2 ^ i
\* The overlap without its bound of a quarter of the ring's width.
ringOverlapMargin_unclamped(levels, baseCellSize, ringOverlap, i) ==
    (ringOverlap * ringCellSize(baseCellSize, i)) \div 1000

ringOverlapMargin(levels, baseCellSize, ringOverlap, i) ==
    Min(ringWidth(levels, i) \div 4,
        (ringOverlap * ringCellSize(baseCellSize, i)) \div 1000)

\* The four strips of ring i, in the order #build adds them.
ringPatches(levels, baseCellSize, ringOverlap, i) ==
    LET inner == ringInner(levels, i)
        outer == ringOuter(levels, i)
        rw == ringWidth(levels, i)
        cellSize == ringCellSize(baseCellSize, i)
        overlap == ringOverlapMargin(levels, baseCellSize, ringOverlap, i)
        longSegments == <<outer, cellSize>>
        shortSegments == <<rw + overlap * 2, cellSize>>
        innerSegments == <<inner, cellSize>>
        stripHeight == rw + overlap * 2
        stripWidth == outer + overlap * 2
        innerStrip == inner + overlap * 2
        distanceFromCenter == inner \div 2 + rw \div 2
    IN  << createPatch(stripWidth, stripHeight, longSegments, shortSegments,
                       0, -distanceFromCenter, i),
           createPatch(stripWidth, stripHeight, longSegments, shortSegments,
                       0, distanceFromCenter, i),
           createPatch(stripHeight, innerStrip, shortSegments, innerSegments,
                       -distanceFromCenter, 0, i),
           createPatch(stripHeight, innerStrip, shortSegments, innerSegments,
                       distanceFromCenter, 0, i) >>

RECURSIVE ringsFrom(_, _, _, _)
ringsFrom(levels, baseCellSize, ringOverlap, i) ==
    IF i >= Len(levels) THEN << >>
    ELSE ringPatches(levels, baseCellSize, ringOverlap, i)
            \o ringsFrom(levels, baseCellSize, ringOverlap, i + 1)

\* OceanLODGrid.#build: the meshes, or Thrown.
build(levels, baseCellSize, ringOverlap) ==
    IF Len(levels) < 2 THEN Thrown
    ELSE Returned(
        << createPatch(levels[1], levels[1], <<levels[1], baseCellSize>>,
                       <<levels[1], baseCellSize>>, 0, 0, 0) >>
            \o ringsFrom(levels, baseCellSize, ringOverlap, 1))

\* new OceanLODGrid({ material, levels, baseCellSize, ringOverlap })
NewOceanLODGrid(args, id) ==
    LET meshes == build(args.levels, args.baseCellSize, args.ringOverlap)
    IN  IF meshes.threw THEN Thrown
        ELSE Returned(
            [id |-> id,
             material |-> args.material,
             levels |-> args.levels,
             baseCellSize |-> args.baseCellSize,
             ringOverlap |-> args.ringOverlap,
             snapSize |-> args.baseCellSize,
             meshes |-> meshes.value,
             position |-> [x |-> 0, y |-> 0, z |-> 0],
             scale |-> [x |-> 1000, y |-> 1000, z |-> 1000]])

\* OceanLODGrid.update
lodUpdate(self, cameraPosition) ==
    [self EXCEPT
        !.position.x = (cameraPosition.x \div self.snapSize) * self.snapSize,
        !.position.z = (cameraPosition.z \div self.snapSize) * self.snapSize]

\* OceanLODGrid.setLodScale
setLodScale(self, scale) ==
    LET clamped == Max(500, Min(2500, scale))
    IN  [self EXCEPT !.scale = [x |-> clamped, y |-> 1000, z |-> clamped]]

\* OceanLODGrid.dispose
lodDispose(self) == [self EXCEPT !.meshes = << >>]

----------------------------------------------------------------------------
(* OceanSystem.js                                                          *)

DEFAULT_PARAMS ==
    [windSpeed |-> 11000, windDirection |-> 140, choppiness |-> 1450,
     foamIntensity |-> 520, sunElevation |-> 24000, lodScale |-> 1000,
     reflectionStrength |-> 620, reflectionDistortion |-> 16,
     sunScatterStrength |-> 240, foamScale |-> 170]

\* MathUtils.degToRad, on whole degrees, in thousandths of a radian.
toRadians(degrees) == (degrees * 31416) \div 1800

\* MathUtils.lerp(x, y, num / den)
lerp(x, y, num, den) == x + ((y - x) * num) \div den

\* A GPU resource: what it is, the object that created it, and its place
\* among the meshes for a patch geometry.
Resource(kind, owner, index) == [kind |-> kind, owner |-> owner, index |-> index]

\* What OceanFFT.dispose disposes: the quad geometry, the 8 render targets,
\* the seed phase texture and the 6 materials.
FFTResourceKinds ==
    {"quadGeometry",
     "initialSpectrum", "spectrum", "pingPhase", "pongPhase", "pingTransform",
     "pongTransform", "displacementMap", "normalMap",
     "seedPhase",
     "materialOceanHorizontal", "materialOceanVertical",
     "materialInitialSpectrum", "materialPhase", "materialSpectrum",
     "materialNormal"}
FFTResources(self) == {Resource(kind, self.id, 0) : kind \in FFTResourceKinds}
MaterialResources(self) == {Resource("oceanMaterial", self.id, 0)}
LODResources(self) ==
    {Resource("patchGeometry", self.id, i) : i \in 1 .. Len(self.meshes)}

\* OceanFFT.getDisplacementMap, getNormalMap
getDisplacementMap(self) == Resource("displacementMap", self.id, 0)
getNormalMap(self) == Resource("normalMap", self.id, 0)

\* OceanMaterial.js: the texture and the matrix the uniforms start with.
defaultReflectionTexture == Resource("defaultReflectionTexture", -1, 0)
IdentityMatrix == [identity |-> TRUE, camera |-> [x |-> 0, y |-> 0, z |-> 0]]

\* createOceanMaterial: the uniforms.
createOceanMaterial(displacementMap, normalMap, simSize, id) ==
    [id |-> id,
     uTime |-> 0,
     uDisplacementMap |-> displacementMap,
     uNormalMap |-> normalMap,
     uSimSize |-> simSize,
     uDisplacementScale |-> 1000,
     uNormalStrength |-> 1000,
     uRoughness |-> 150,
     uFoamIntensity |-> 550,
     lighting |-> "initial",
     uReflectionMap |-> defaultReflectionTexture,
     uReflectionMatrix |-> IdentityMatrix,
     uReflectionStrength |-> 580,
     uReflectionDistortion |-> 16,
     uSunScatterStrength |-> 240,
     uFoamScale |-> 170,
     uDetailDrift |-> <<0, 0>>]

\* The record of dispose() calls after one more call on each of resources.
Disposed(calls, resources) ==
    [r \in DOMAIN calls \cup resources |->
        (IF r \in DOMAIN calls THEN calls[r] ELSE 0)
            + (IF r \in resources THEN 1 ELSE 0)]

\* OceanSystem.#teardown: what it disposes.
teardownResources_keepMaterial(grid, mat, sim) ==
    (IF grid # NULL THEN LODResources(grid) ELSE {})
        \cup (IF sim # NULL THEN FFTResources(sim) ELSE {})

\* OceanSystem.#teardown without its call of lodGrid.dispose().
teardownResources_withoutGrid(grid, mat, sim) ==
    (IF mat # NULL THEN MaterialResources(mat) ELSE {})
        \cup (IF sim # NULL THEN FFTResources(sim) ELSE {})

teardownResources(grid, mat, sim) ==
    (IF grid # NULL THEN LODResources(grid) ELSE {})
        \cup (IF mat # NULL THEN MaterialResources(mat) ELSE {})
        \cup (IF sim # NULL THEN FFTResources(sim) ELSE {})

\* OceanSystem.#teardown
teardown ==
    LET released == teardownResources(lodGrid, material, fft)
    IN  /\ live' = live \ released
        /\ disposeCalls' = Disposed(disposeCalls, released)
        /\ root' = IF lodGrid # NULL
                   THEN [root EXCEPT !.children = @ \ {lodGrid.id}]
                   ELSE root
        /\ lodGrid' = NULL
        /\ material' = NULL
        /\ uniforms' = NULL
        /\ fft' = NULL

applyOceanParamsFFT_choppinessOnly(sim, p) ==
    setChoppiness(sim, p.choppiness)

\* OceanSystem.#applyOceanParams, on the simulation.
applyOceanParamsFFT(sim, p) ==
    setChoppiness(setWind(sim, p.windSpeed, toRadians(p.windDirection)),
                  p.choppiness)

\* OceanSystem.#applyOceanParams, on the uniforms.
applyOceanParamsUniforms(u, p, q) ==
    [u EXCEPT
        !.uFoamIntensity = p.foamIntensity,
        !.uDisplacementScale =
            (q.displacementScale * lerp(850, 1200, p.choppiness, 3200)) \div 1000,
        !.uNormalStrength = lerp(920, 1350, Min(p.choppiness, 3200), 3200),
        !.uRoughness = lerp(90, 230, Min(p.windSpeed, 30000), 30000),
        !.uDetailDrift = <<Cos(toRadians(p.windDirection)),
                           Sin(toRadians(p.windDirection))>>,
        !.uReflectionStrength = p.reflectionStrength,
        !.uReflectionDistortion = p.reflectionDistortion,
        !.uSunScatterStrength = p.sunScatterStrength,
        !.uFoamScale = p.foamScale]

\* OceanSystem.#applyOceanParams, on the grid.
applyOceanParamsGrid(grid, p) ==
    IF grid # NULL THEN setLodScale(grid, p.lodScale) ELSE grid

\* The keys setParam's switch forwards to #applyOceanParams.
AppliedKeys ==
    {"windSpeed", "windDirection", "choppiness", "foamIntensity", "lodScale",
     "reflectionStrength", "reflectionDistortion", "sunScatterStrength",
     "foamScale"}

Call(op, args) == [op |-> op, args |-> args]

DefaultRenderer ==
    [renderTarget |-> "canvas", xrEnabled |-> FALSE, shadowAutoUpdate |-> TRUE,
     autoClear |-> TRUE]

\* The arguments of the three update calls of a frame.
UpdateArgs(deltaTime, elapsedTime, cameraPosition) ==
    [deltaTime |-> deltaTime, elapsedTime |-> elapsedTime,
     cameraPosition |-> cameraPosition]

\* OceanSystem.setParam
SetParam(paramKey, paramValue) ==
    /\ pc = "idle"
    /\ params' = [params EXCEPT ![paramKey] = paramValue]
    /\ IF uniforms = NULL \/ fft = NULL \/ paramKey \notin AppliedKeys
       THEN UNCHANGED <<fft, uniforms, lodGrid>>
       ELSE /\ fft' = applyOceanParamsFFT(fft, params')
            /\ uniforms' = applyOceanParamsUniforms(uniforms, params', quality)
            /\ lodGrid' = applyOceanParamsGrid(lodGrid, params')
    /\ error' = NoError
    /\ lastCall' = Call("setParam", <<paramKey, paramValue>>)
    /\ UNCHANGED <<viewport, reflection, textures, renderer, presets, qualityPreset, quality, material, root,
                   pc, gen, live, disposeCalls>>

\* OceanSystem.rebuild, lines 75 to 78: the preset is selected and the old
\* resource set torn down.
rebuildBegin(name) ==
    /\ qualityPreset' = name
    /\ quality' = IF name \in DOMAIN presets THEN presets[name]
                  ELSE presets["balanced"]
    /\ teardown
    /\ gen' = gen + 1
    /\ pc' = "rebuild:fft"

\* The rebuilds a behaviour may begin after the constructor's.
MaxRebuilds == 2

SetQualityPreset_alwaysRebuilds(presetName) ==
    /\ pc = "idle"
    /\ lastCall' = Call("setQualityPreset", presetName)
    /\ gen < MaxRebuilds
    /\ rebuildBegin(presetName)
    /\ UNCHANGED <<viewport, reflection, textures, error, renderer, presets, params>>

\* OceanSystem.setQualityPreset
SetQualityPreset(presetName) ==
    /\ pc = "idle"
    /\ lastCall' = Call("setQualityPreset", presetName)
    /\ IF presetName = qualityPreset
       THEN /\ error' = NoError
            /\ UNCHANGED <<fft, lodGrid, qualityPreset, quality, material,
                           uniforms, root, pc, gen, live, disposeCalls>>
       ELSE /\ gen < MaxRebuilds
            /\ rebuildBegin(presetName)
            /\ UNCHANGED error
    /\ UNCHANGED <<viewport, reflection, textures, renderer, presets, params>>

\* OceanSystem.rebuild, lines 80 to 87: the simulation is constructed.
RebuildFFT ==
    /\ pc = "rebuild:fft"
    /\ LET made == NewOceanFFT(
                [resolution |-> quality.fftResolution,
                 size |-> quality.simulationSize,
                 windSpeed |-> params.windSpeed,
                 windDirection |-> toRadians(params.windDirection),
                 choppiness |-> params.choppiness,
                 useHalfFloat |-> TRUE], gen)
       IN  IF made.threw
           THEN /\ error' = PowerOfTwoError
                /\ pc' = "idle"
                /\ UNCHANGED <<fft, live>>
           ELSE /\ fft' = made.value
                /\ live' = live \cup FFTResources(made.value)
                /\ pc' = "rebuild:material"
                /\ UNCHANGED error
    /\ UNCHANGED <<viewport, reflection, textures, lodGrid, renderer, lastCall, presets, params, qualityPreset,
                   quality, material, uniforms, root, gen, disposeCalls>>

\* OceanSystem.rebuild, lines 89 to 96: the material is created.
RebuildMaterial ==
    /\ pc = "rebuild:material"
    /\ material' = [id |-> gen]
    /\ uniforms' = createOceanMaterial(getDisplacementMap(fft), getNormalMap(fft),
                                       quality.simulationSize, gen)
    /\ live' = live \cup MaterialResources(material')
    /\ pc' = "rebuild:lodGrid"
    /\ UNCHANGED <<viewport, reflection, textures, fft, lodGrid, renderer, error, lastCall, presets, params,
                   qualityPreset, quality, root, gen, disposeCalls>>

\* OceanSystem.rebuild, lines 98 to 103: the grid is constructed.
RebuildLodGrid ==
    /\ pc = "rebuild:lodGrid"
    /\ LET made == NewOceanLODGrid(
                [material |-> material.id,
                 levels |-> quality.levelSizes,
                 baseCellSize |-> quality.baseCellSize,
                 ringOverlap |-> quality.ringOverlap], gen)
       IN  IF made.threw
           THEN /\ error' = LevelSizesError
                /\ pc' = "idle"
                /\ UNCHANGED <<lodGrid, live>>
           ELSE /\ lodGrid' = made.value
                /\ live' = live \cup LODResources(made.value)
                /\ pc' = "rebuild:apply"
                /\ UNCHANGED error
    /\ UNCHANGED <<viewport, reflection, textures, fft, renderer, lastCall, presets, params, qualityPreset,
                   quality, material, uniforms, root, gen, disposeCalls>>

\* OceanSystem.rebuild, lines 105 to 108: the grid is scaled and attached,
\* and the parameters applied.
RebuildApply ==
    /\ pc = "rebuild:apply"
    /\ root' = [root EXCEPT !.children = @ \cup {lodGrid.id}]
    /\ fft' = applyOceanParamsFFT(fft, params)
    /\ uniforms' = applyOceanParamsUniforms(uniforms, params, quality)
    /\ lodGrid' = applyOceanParamsGrid(setLodScale(lodGrid, params.lodScale), params)
    /\ error' = NoError
    /\ pc' = "idle"
    /\ UNCHANGED <<viewport, reflection, textures, renderer, lastCall, presets, params, qualityPreset, quality,
                   material, gen, live, disposeCalls>>

\* OceanSystem.update
\* OceanSystem.update, the simulation's part: fft.update, then the uniforms
\* that carry the time, the simulation's maps and the lighting.
simulationUpdate(s, deltaTime, elapsedTime) ==
    LET sim == update(s.fft, deltaTime)
    IN  [s EXCEPT
            !.fft = sim,
            !.renderer = rendererAfterUpdate(s.renderer, sim),
            !.uniforms = [s.uniforms EXCEPT
                            !.uTime = elapsedTime,
                            !.uDisplacementMap = getDisplacementMap(sim),
                            !.uNormalMap = getNormalMap(sim),
                            !.lighting = "lightingState"]]

\* OceanSystem.update, the grid's part: lodGrid.update(camera.position).
gridUpdate(s, cameraPosition) ==
    [s EXCEPT !.lodGrid = lodUpdate(s.lodGrid, cameraPosition)]

\* OceanSystem.update(deltaTime, elapsedTime, lightingState): the frame it
\* leaves; nothing happens while a resource is missing.
systemUpdate(s, deltaTime, elapsedTime, cameraPosition) ==
    IF s.fft = NULL \/ s.uniforms = NULL \/ s.lodGrid = NULL
    THEN s
    ELSE gridUpdate(simulationUpdate(s, deltaTime, elapsedTime), cameraPosition)

Update(deltaTime, elapsedTime, cameraPosition) ==
    /\ pc = "idle"
    /\ lastCall' = Call("update", UpdateArgs(deltaTime, elapsedTime, cameraPosition))
    /\ error' = NoError
    /\ LET after == systemUpdate([fft |-> fft, lodGrid |-> lodGrid,
                                  uniforms |-> uniforms, renderer |-> renderer],
                                 deltaTime, elapsedTime, cameraPosition)
       IN  /\ fft' = after.fft
           /\ uniforms' = after.uniforms
           /\ lodGrid' = after.lodGrid
           /\ renderer' = after.renderer
    /\ UNCHANGED <<viewport, reflection, textures, presets, params, qualityPreset, quality, material, root, pc,
                   gen, live, disposeCalls>>

\* OceanSystem.dispose
Dispose ==
    /\ pc = "idle"
    /\ lastCall' = Call("dispose", << >>)
    /\ error' = NoError
    /\ LET released == teardownResources(lodGrid, material, fft)
       IN  /\ live' = live \ released
           /\ disposeCalls' = Disposed(disposeCalls, released)
           /\ root' = [children |-> IF lodGrid # NULL
                                    THEN root.children \ {lodGrid.id}
                                    ELSE root.children,
                       inScene |-> FALSE,
                       visible |-> root.visible]
    /\ lodGrid' = NULL
    /\ material' = NULL
    /\ uniforms' = NULL
    /\ fft' = NULL
    /\ UNCHANGED <<viewport, reflection, textures, renderer, presets, params, qualityPreset, quality, pc, gen>>

\* The values the callers of setParam pass, per key.
ParamInputs ==
    [windSpeed |-> {0}, windDirection |-> {225},
     choppiness |-> {-500}, foamIntensity |-> {520},
     sunElevation |-> {24000}, lodScale |-> {3000},
     reflectionStrength |-> {620}, reflectionDistortion |-> {16},
     sunScatterStrength |-> {240}, foamScale |-> {170}]

\* new OceanSystem({ renderer, scene, camera, qualityPreset, params }) at its
\* call of rebuild, whose teardown finds nothing to tear down (lines 50 to 78).
SystemConstructed(table, name) ==
    /\ presets = table
    /\ params = DEFAULT_PARAMS
    /\ qualityPreset = name
    /\ quality = IF name \in DOMAIN table THEN table[name] ELSE table["balanced"]
    /\ fft = NULL
    /\ lodGrid = NULL
    /\ material = NULL
    /\ uniforms = NULL
    /\ root = [children |-> {}, inScene |-> TRUE, visible |-> TRUE]
    /\ reflection = NULL
    /\ textures = NULL
    /\ viewport = InitialViewport
    /\ pc = "rebuild:fft"
    /\ gen = 0
    /\ live = {}
    /\ disposeCalls = [r \in {} |-> 0]
    /\ renderer = DefaultRenderer
    /\ error = NoError
    /\ lastCall = Call("new OceanSystem", name)

Init == SystemConstructed(QUALITY_PRESETS, "balanced")

Next ==
    \/ \E key \in DOMAIN ParamInputs : \E value \in ParamInputs[key] :
            SetParam(key, value)
    \/ \E name \in PresetNames : SetQualityPreset(name)
    \/ RebuildFFT
    \/ RebuildMaterial
    \/ RebuildLodGrid
    \/ RebuildApply
    \/ Update(4, 16, [x |-> 2600, y |-> 9000, z |-> -1300])
    \/ Dispose

Spec == Init /\ [][Next]_vars

----------------------------------------------------------------------------
(* The OceanSystem over a preset table that may be misconfigured: the      *)
(* shipped table, one whose cinematic resolution is no power of two, and   *)
(* one whose performance preset has a single level size.                   *)

ConfigTables ==
    {QUALITY_PRESETS,
     [QUALITY_PRESETS EXCEPT !["cinematic"].fftResolution = 384000],
     [QUALITY_PRESETS EXCEPT !["performance"].levelSizes = <<224000>>]}

InitCfg == \E table \in ConfigTables : SystemConstructed(table, "balanced")

NextCfg ==
    \/ \E value \in ParamInputs["windSpeed"] : SetParam("windSpeed", value)
    \/ \E name \in PresetNames : SetQualityPreset(name)
    \/ RebuildFFT
    \/ RebuildMaterial
    \/ RebuildLodGrid
    \/ RebuildApply
    \/ Update(4, 16, [x |-> 2600, y |-> 9000, z |-> -1300])
    \/ Dispose

SpecCfg == InitCfg /\ [][NextCfg]_vars

----------------------------------------------------------------------------
(* The simulation on its own: an OceanFFT constructed with any options and *)
(* driven through its public methods.                                      *)

MaxResolutionInput == 4

\* Requested resolutions: -1 to MaxResolutionInput in steps of one half,
\* and the resolutions of the presets.
ResolutionInputs ==
    {k * 500 : k \in -2 .. 2 * MaxResolutionInput}
        \cup {QUALITY_PRESETS[p].fftResolution : p \in PresetNames}
SizeInputs == {-5000, 0, 980000}
ChoppinessInputs == {-500, 1450}
WindSpeedInputs == {0, 11000}
WindDirectionInputs == {toRadians(140)}
DeltaTimeInputs == {-4, 0, 4, 48}

OptionInputs ==
    {[useHalfFloat |-> TRUE]}
        \cup [resolution : ResolutionInputs, size : SizeInputs]
        \cup [choppiness : ChoppinessInputs, windSpeed : WindSpeedInputs,
              windDirection : WindDirectionInputs]

\* No OceanSystem takes part: its variables stay as they are here.
NoSystem ==
    /\ presets = QUALITY_PRESETS
    /\ params = DEFAULT_PARAMS
    /\ qualityPreset = "balanced"
    /\ quality = QUALITY_PRESETS["balanced"]
    /\ material = NULL
    /\ uniforms = NULL
    /\ root = [children |-> {}, inScene |-> TRUE, visible |-> TRUE]
    /\ reflection = NULL
    /\ textures = NULL
    /\ viewport = InitialViewport
    /\ pc = "idle"
    /\ gen = 0
    /\ live = {}
    /\ disposeCalls = [r \in {} |-> 0]

InitFFT ==
    /\ fft = NULL
    /\ lodGrid = NULL
    /\ renderer \in {DefaultRenderer,
                     [DefaultRenderer EXCEPT !.renderTarget = "offscreen"]}
    /\ error = NoError
    /\ lastCall = Call("none", << >>)
    /\ NoSystem

FFTConstruct(options) ==
    LET made == NewOceanFFT(options, 0)
    IN  /\ fft = NULL
        /\ fft' = IF made.threw THEN NULL ELSE made.value
        /\ error' = IF made.threw THEN PowerOfTwoError ELSE NoError
        /\ lastCall' = Call("new OceanFFT", options)
        /\ UNCHANGED <<lodGrid, renderer, sysVars, textures>>

FFTSetWind(speed, directionRadians) ==
    /\ fft # NULL
    /\ fft' = setWind(fft, speed, directionRadians)
    /\ error' = NoError
    /\ lastCall' = Call("setWind", <<speed, directionRadians>>)
    /\ UNCHANGED <<lodGrid, renderer, sysVars, textures>>

FFTSetSize(size) ==
    /\ fft # NULL
    /\ fft' = setSize(fft, size)
    /\ error' = NoError
    /\ lastCall' = Call("setSize", <<size>>)
    /\ UNCHANGED <<lodGrid, renderer, sysVars, textures>>

FFTSetChoppiness(choppiness) ==
    /\ fft # NULL
    /\ fft' = setChoppiness(fft, choppiness)
    /\ error' = NoError
    /\ lastCall' = Call("setChoppiness", <<choppiness>>)
    /\ UNCHANGED <<lodGrid, renderer, sysVars, textures>>

\* The updates a behaviour may make while the textures are followed.
MaxUpdates == 4

FFTUpdate(deltaTime) ==
    /\ fft # NULL
    /\ fft' = update(fft, deltaTime)
    /\ renderer' = rendererAfterUpdate(renderer, fft')
    /\ error' = NoError
    /\ lastCall' = Call("update", <<deltaTime>>)
    /\ IF textures = NULL
       THEN textures' = NULL
       ELSE /\ textures.updates < MaxUpdates
            /\ textures' = updateTextures(textures, fft, deltaTime)
    /\ UNCHANGED <<lodGrid, sysVars>>

NextFFT ==
    \/ \E options \in OptionInputs : FFTConstruct(options)
    \/ \E speed \in WindSpeedInputs, direction \in WindDirectionInputs :
            FFTSetWind(speed, direction)
    \/ \E size \in SizeInputs : FFTSetSize(size)
    \/ \E choppiness \in ChoppinessInputs : FFTSetChoppiness(choppiness)
    \/ \E deltaTime \in {4, 48} : FFTUpdate(deltaTime)

SpecFFT == InitFFT /\ [][NextFFT]_vars

----------------------------------------------------------------------------
(* The simulation with its textures followed texel by texel: a small       *)
(* OceanFFT, its seed phases drawn at construction, driven through         *)
(* setWind and update.                                                     *)

\* What Math.random() returns, in thousandths.
RandomInputs == {0, 999}

RandomFields(resolution) ==
    {[bin \in Bins(resolution) |-> r] : r \in RandomInputs}
        \cup {[bin \in Bins(resolution) |->
                  (999 * (1 + bin[1] + 2 * bin[2])) % 1000]}

TextureOptionInputs == [resolution : {2000, 4000}, size : {32000, 980000}]

InitTextures ==
    /\ \E options \in TextureOptionInputs :
          LET made == NewOceanFFT(options, 0).value
          IN  /\ fft = made
              /\ textures \in {NewTextures(made, randoms) :
                                  randoms \in RandomFields(made.resolution)}
    /\ lodGrid = NULL
    /\ viewport = InitialViewport
    /\ renderer = DefaultRenderer
    /\ error = NoError
    /\ lastCall = Call("new OceanFFT", << >>)
    /\ presets = QUALITY_PRESETS
    /\ params = DEFAULT_PARAMS
    /\ qualityPreset = "balanced"
    /\ quality = QUALITY_PRESETS["balanced"]
    /\ material = NULL
    /\ uniforms = NULL
    /\ root = [children |-> {}, inScene |-> TRUE, visible |-> TRUE]
    /\ reflection = NULL
    /\ pc = "idle"
    /\ gen = 0
    /\ live = {}
    /\ disposeCalls = [r \in {} |-> 0]

NextTextures ==
    \/ \E speed \in WindSpeedInputs, directionRadians \in WindDirectionInputs :
          FFTSetWind(speed, directionRadians)
    \/ \E deltaTime \in DeltaTimeInputs : FFTUpdate(deltaTime)

SpecTextures == InitTextures /\ [][NextTextures]_vars

----------------------------------------------------------------------------
(* The LOD grid on its own: an OceanLODGrid constructed with any level     *)
(* sizes and driven through its public methods.                            *)

MaxLevels == 3

LevelSizeInputs == {2000, 4000, 8000}

RECURSIVE SeqsUpTo(_, _)
SeqsUpTo(S, n) ==
    IF n = 0 THEN {<< >>}
    ELSE LET shorter == SeqsUpTo(S, n - 1)
         IN  shorter \cup {Append(q, x) : q \in shorter, x \in S}

LevelsInputs ==
    SeqsUpTo(LevelSizeInputs, MaxLevels)
        \cup {QUALITY_PRESETS[p].levelSizes : p \in PresetNames}

GridInputs ==
    {[material |-> 0, levels |-> levels,
      baseCellSize |-> QUALITY_PRESETS[p].baseCellSize,
      ringOverlap |-> QUALITY_PRESETS[p].ringOverlap] :
        levels \in LevelsInputs, p \in PresetNames}

CameraPositionInputs ==
    {[x |-> 0, y |-> 9000, z |-> 0],
     [x |-> 2600, y |-> 9000, z |-> -1300],
     [x |-> -700, y |-> -2000, z |-> 900]}

LodScaleInputs == {200, 1800, 3000}

InitLOD == InitFFT

LODConstruct(args) ==
    LET made == NewOceanLODGrid(args, 0)
    IN  /\ lodGrid = NULL
        /\ lodGrid' = IF made.threw THEN NULL ELSE made.value
        /\ error' = IF made.threw THEN LevelSizesError ELSE NoError
        /\ lastCall' = Call("new OceanLODGrid", args)
        /\ UNCHANGED <<fft, renderer, sysVars, textures>>

LODUpdate(cameraPosition) ==
    /\ lodGrid # NULL
    /\ lodGrid' = lodUpdate(lodGrid, cameraPosition)
    /\ error' = NoError
    /\ lastCall' = Call("lodGrid.update", cameraPosition)
    /\ UNCHANGED <<fft, renderer, sysVars, textures>>

LODSetLodScale(scale) ==
    /\ lodGrid # NULL
    /\ lodGrid' = setLodScale(lodGrid, scale)
    /\ error' = NoError
    /\ lastCall' = Call("setLodScale", scale)
    /\ UNCHANGED <<fft, renderer, sysVars, textures>>

LODDispose ==
    /\ lodGrid # NULL
    /\ lodGrid' = lodDispose(lodGrid)
    /\ error' = NoError
    /\ lastCall' = Call("lodGrid.dispose", << >>)
    /\ UNCHANGED <<fft, renderer, sysVars, textures>>

NextLOD ==
    \/ \E args \in GridInputs : LODConstruct(args)
    \/ \E cameraPosition \in CameraPositionInputs : LODUpdate(cameraPosition)
    \/ \E scale \in LodScaleInputs : LODSetLodScale(scale)
    \/ LODDispose

SpecLOD == InitLOD /\ [][NextLOD]_vars

----------------------------------------------------------------------------
(* Properties of the simulation's and the grid's construction.             *)

IsPowerOfTwo(n) == \E k \in 0 .. 30 : n = 2 ^ k

\* A number (in thousandths) that is an integer power of two.
IsPowerOfTwoNumber(value) == value % 1000 = 0 /\ IsPowerOfTwo(value \div 1000)

StrictlyIncreasing(levels) ==
    \A i \in 2 .. Len(levels) : levels[i - 1] < levels[i]

\* C1: every preset's fftResolution r satisfies r & (r - 1) = 0, and the
\* resolution of every constructed OceanFFT is a power of two.
C1_ResolutionIsPowerOfTwo ==
    /\ \A p \in PresetNames :
          LET r == QUALITY_PRESETS[p].fftResolution
          IN  r % 1000 = 0 /\ BitAnd(r \div 1000, r \div 1000 - 1) = 0
    /\ fft # NULL => IsPowerOfTwo(fft.resolution)

\* C1 witness: a simulation constructed at a preset's resolution and updated.
C1_Witness ==
    /\ fft # NULL
    /\ fft.resolution = QUALITY_PRESETS["cinematic"].fftResolution \div 1000
    /\ lastCall.op = "update"

C4_DomainSizePositive ==
    /\ (/\ lastCall.op = "new OceanFFT"
        /\ "size" \in DOMAIN lastCall.args
        /\ lastCall.args.size <= 0)
            => (error # NoError /\ fft = NULL)
    /\ fft # NULL => fft.size > 0

\* C5 as stated: construction of the grid throws when the level sizes are
\* fewer than 2 or not strictly increasing, and then builds no patch.
C5_BadLevelSizesThrow ==
    (/\ lastCall.op = "new OceanLODGrid"
     /\ (Len(lastCall.args.levels) < 2 \/ ~StrictlyIncreasing(lastCall.args.levels)))
        => (error = LevelSizesError /\ lodGrid = NULL)

----------------------------------------------------------------------------
(* PlanarReflectionPass.js.  Vectors are records of thousandths; a matrix *)
(* is named by the camera position it was computed from.  The pass is     *)
(* driven on its own: the ocean's uniforms are those of a fresh material, *)
(* the renderer and the root are as the host left them.                   *)

Vec(x, y, z) == [x |-> x, y |-> y, z |-> z]
Dot(a, b) == a.x * b.x + a.y * b.y + a.z * b.z
Sub(a, b) == Vec(a.x - b.x, a.y - b.y, a.z - b.z)
Add(a, b) == Vec(a.x + b.x, a.y + b.y, a.z + b.z)
Negate(a) == Vec(-a.x, -a.y, -a.z)

\* Vector3.reflect about a unit normal.
Reflect(v, normal) ==
    LET twice == (2 * Dot(v, normal)) \div 1000
    IN  Vec(v.x - (twice * normal.x) \div 1000,
            v.y - (twice * normal.y) \div 1000,
            v.z - (twice * normal.z) \div 1000)

reflectionTexture == Resource("reflectionTexture", -1, 0)

\* The number a Math.min or Math.max call returns when an argument is not a
\* number; arithmetic on it yields it again.
NaN == -2147483647

\* Math.max(1, Math.floor(extent * resolutionScale))
targetExtent(extent, resolutionScale) ==
    IF resolutionScale = NaN THEN NaN
    ELSE Max(1, (extent * resolutionScale) \div 1000)

\* new PlanarReflectionPass({..., resolutionScale}) in a window of that size.
NewPlanarReflectionPass(resolutionScale, window) ==
    [resolutionScale |-> resolutionScale,
     textureMatrix |-> IdentityMatrix,
     cameraWorldPosition |-> Vec(0, 0, 0),
     view |-> Vec(0, 0, 0),
     renderTarget |->
        [width |-> targetExtent(window.innerWidth, resolutionScale),
         height |-> targetExtent(window.innerHeight, resolutionScale),
         image |-> [rendered |-> FALSE, camera |-> Vec(0, 0, 0)]],
     renders |-> << >>]

\* PlanarReflectionPass.resize
resize(self, width, height) ==
    [self EXCEPT !.renderTarget.width = targetExtent(width, self.resolutionScale),
                 !.renderTarget.height = targetExtent(height, self.resolutionScale)]

\* PlanarReflectionPass.setResolutionScale storing the scale as given.
setResolutionScale_unclamped(self, scale, window) ==
    resize([self EXCEPT !.resolutionScale = scale],
           window.innerWidth, window.innerHeight)

\* PlanarReflectionPass.setResolutionScale
setResolutionScale(self, scale, window) ==
    resize([self EXCEPT !.resolutionScale =
                IF scale = NaN THEN NaN ELSE Max(350, Min(1250, scale))],
           window.innerWidth, window.innerHeight)

\* REFLECTION_QUALITY_SCALE of App.jsx, in thousandths.
REFLECTION_QUALITY_SCALE == [medium |-> 550, high |-> 800, ultra |-> 1000]

\* Names every object literal inherits from Object.prototype: looking one
\* up yields a function or an object, neither undefined nor null.
ObjectPrototypeKeys ==
    {"constructor", "toString", "valueOf", "hasOwnProperty", "__proto__"}

\* REFLECTION_QUALITY_SCALE[value] ?? 0.8, as the number Math.min makes of it.
reflectionQualityScale(value) ==
    IF value \in DOMAIN REFLECTION_QUALITY_SCALE
    THEN REFLECTION_QUALITY_SCALE[value]
    ELSE IF value \in ObjectPrototypeKeys THEN NaN
    ELSE 800

\* onResize of App.jsx without its call of planarReflectionPass.resize.
onResize_withoutReflection(self, window) == self

\* onResize of App.jsx: what it does to the reflection pass.
onResize(self, window) == resize(self, window.innerWidth, window.innerHeight)

cameraBehindPlane_never(view, normal) == FALSE

\* PlanarReflectionPass.update: the test that skips the frame.
cameraBehindPlane(view, normal) == Dot(view, normal) > 0

\* PlanarReflectionPass.update: the position of the mirrored camera.
mirrorCameraPosition(mirrorWorldPosition, cameraWorldPosition, normal) ==
    Add(Negate(Reflect(Sub(mirrorWorldPosition, cameraWorldPosition), normal)),
        mirrorWorldPosition)

\* PlanarReflectionPass.update leaving the reflection target bound.
restoreRenderer_keepsTarget(rendering, savedTarget, savedXr, savedShadow) ==
    [rendering EXCEPT !.xrEnabled = savedXr,
                      !.shadowAutoUpdate = savedShadow]

\* PlanarReflectionPass.update: the renderer after the render, its saved
\* flags and render target put back.
restoreRenderer(rendering, savedTarget, savedXr, savedShadow) ==
    [rendering EXCEPT !.xrEnabled = savedXr,
                      !.shadowAutoUpdate = savedShadow,
                      !.renderTarget = savedTarget]

ReflectionUpdateArgs(cameraPosition, rootPose, withUniforms) ==
    [cameraPosition |-> cameraPosition, rootPose |-> rootPose,
     oceanUniforms |-> withUniforms]

\* The objects a frame's updates read and write.
Frame(sim, grid, unif, pass, rend, rt) ==
    [fft |-> sim, lodGrid |-> grid, uniforms |-> unif, reflection |-> pass,
     renderer |-> rend, root |-> rt]

\* What a render of the scene shows of the ocean: nothing while the root is
\* hidden, else the surface the simulation and the grid describe.
oceanInView(s) ==
    IF ~s.root.visible \/ s.fft = NULL \/ s.lodGrid = NULL THEN {}
    ELSE {[simulation |-> s.fft, origin |-> s.lodGrid.position]}

\* PlanarReflectionPass.update rendering with the ocean root left visible.
hideRoot_not(rt) == rt

\* PlanarReflectionPass.update: this.oceanRoot.visible = false.
hideRoot(rt) == [rt EXCEPT !.visible = FALSE]

\* PlanarReflectionPass.update({ oceanUniforms }), the camera and the root
\* standing where the arguments say: the frame it leaves.
reflectionUpdate(s, cameraPosition, rootPose, withUniforms) ==
    IF ~s.root.visible
    THEN [s EXCEPT !.reflection.renders = << >>]
    ELSE LET mirrorWorldPosition == rootPose.position
             normal == rootPose.up
             view == Sub(mirrorWorldPosition, cameraPosition)
             scratch == [s.reflection EXCEPT
                            !.cameraWorldPosition = cameraPosition,
                            !.view = view,
                            !.renders = << >>]
         IN  IF cameraBehindPlane(view, normal)
             THEN [s EXCEPT !.reflection = scratch]
             ELSE LET mirrored == mirrorCameraPosition(mirrorWorldPosition,
                                                       cameraPosition, normal)
                      textureMatrix == [identity |-> FALSE, camera |-> mirrored]
                      currentRenderTarget == s.renderer.renderTarget
                      currentXrEnabled == s.renderer.xrEnabled
                      currentShadowAutoUpdate == s.renderer.shadowAutoUpdate
                      hidden == hideRoot(s.root)
                      rendering == [s.renderer EXCEPT
                                        !.xrEnabled = FALSE,
                                        !.shadowAutoUpdate = FALSE,
                                        !.renderTarget = "reflectionTarget"]
                      render == [target |-> rendering.renderTarget,
                                 camera |-> mirrored,
                                 rootVisible |-> hidden.visible,
                                 ocean |-> oceanInView([s EXCEPT !.root = hidden]),
                                 xrEnabled |-> rendering.xrEnabled,
                                 shadowAutoUpdate |-> rendering.shadowAutoUpdate,
                                 cleared |-> ~s.renderer.autoClear]
                  IN  [s EXCEPT
                        !.reflection =
                            [scratch EXCEPT
                                !.view = mirrored,
                                !.textureMatrix = textureMatrix,
                                !.renderTarget.image =
                                    [rendered |-> TRUE, camera |-> mirrored],
                                !.renders = <<render>>],
                        !.root = [hidden EXCEPT !.visible = TRUE],
                        !.renderer =
                            restoreRenderer(rendering, currentRenderTarget,
                                            currentXrEnabled,
                                            currentShadowAutoUpdate),
                        !.uniforms =
                            IF withUniforms
                            THEN [s.uniforms EXCEPT
                                    !.uReflectionMap = reflectionTexture,
                                    !.uReflectionMatrix = textureMatrix]
                            ELSE s.uniforms]

\* PlanarReflectionPass.update({ oceanUniforms }) called on its own.
ReflectionUpdate(cameraPosition, rootPose, withUniforms) ==
    /\ reflection # NULL
    /\ lastCall' = Call("reflection.update",
                        ReflectionUpdateArgs(cameraPosition, rootPose, withUniforms))
    /\ error' = NoError
    /\ LET after == reflectionUpdate(
                        Frame(fft, lodGrid, uniforms, reflection, renderer, root),
                        cameraPosition, rootPose, withUniforms)
       IN  /\ reflection' = after.reflection
           /\ renderer' = after.renderer
           /\ uniforms' = after.uniforms
           /\ root' = after.root
    /\ UNCHANGED <<viewport, fft, lodGrid, textures, presets, params, qualityPreset, quality,
                   material, pc, gen, live, disposeCalls>>

\* PlanarReflectionPass.setResolutionScale: it reads the window's size.
ReflectionSetResolutionScale(scale) ==
    /\ reflection # NULL
    /\ lastCall' = Call("reflection.setResolutionScale", <<scale>>)
    /\ error' = NoError
    /\ reflection' = setResolutionScale(reflection, scale, viewport)
    /\ UNCHANGED <<viewport, fft, lodGrid, textures, renderer, presets, params, qualityPreset,
                   quality, material, uniforms, root, pc, gen, live,
                   disposeCalls>>

\* PlanarReflectionPass.resize
ReflectionResize(window) ==
    /\ reflection # NULL
    /\ lastCall' = Call("reflection.resize", window)
    /\ error' = NoError
    /\ reflection' = resize(reflection, window.innerWidth, window.innerHeight)
    /\ UNCHANGED <<viewport, fft, lodGrid, textures, renderer, presets, params, qualityPreset,
                   quality, material, uniforms, root, pc, gen, live,
                   disposeCalls>>

\* onReflectionQualityChange of App.jsx, the GUI's callback.
OnReflectionQualityChange(value) ==
    /\ reflection # NULL
    /\ lastCall' = Call("onReflectionQualityChange", <<value>>)
    /\ error' = NoError
    /\ reflection' = setResolutionScale(reflection, reflectionQualityScale(value),
                                        viewport)
    /\ UNCHANGED <<viewport, fft, lodGrid, textures, renderer, presets, params,
                   qualityPreset, quality, material, uniforms, root, pc, gen,
                   live, disposeCalls>>

\* The user gives the browser window another size: window.innerWidth and
\* innerHeight change at once, the resize event is queued.
ViewportResized(window) ==
    /\ viewport' = [innerWidth |-> window.innerWidth,
                    innerHeight |-> window.innerHeight,
                    resizePending |-> TRUE]
    /\ lastCall' = Call("window resized", window)
    /\ error' = NoError
    /\ UNCHANGED <<fft, lodGrid, textures, renderer, presets, params,
                   qualityPreset, quality, material, uniforms, root, pc, gen,
                   live, disposeCalls, reflection>>

\* The browser dispatches the queued resize event: onResize of App.jsx runs.
OnResize ==
    /\ reflection # NULL
    /\ viewport.resizePending
    /\ viewport' = [viewport EXCEPT !.resizePending = FALSE]
    /\ lastCall' = Call("onResize", << >>)
    /\ error' = NoError
    /\ reflection' = onResize(reflection, viewport)
    /\ UNCHANGED <<fft, lodGrid, textures, renderer, presets, params,
                   qualityPreset, quality, material, uniforms, root, pc, gen,
                   live, disposeCalls>>

\* The dispose() calls a behaviour may make on the reflection target.
MaxReflectionDisposals == 1

\* PlanarReflectionPass.dispose
ReflectionDispose ==
    /\ reflection # NULL
    /\ IF reflectionTexture \in DOMAIN disposeCalls
       THEN disposeCalls[reflectionTexture] < MaxReflectionDisposals
       ELSE MaxReflectionDisposals > 0
    /\ lastCall' = Call("reflection.dispose", << >>)
    /\ error' = NoError
    /\ live' = live \ {reflectionTexture}
    /\ disposeCalls' = Disposed(disposeCalls, {reflectionTexture})
    /\ UNCHANGED <<viewport, fft, lodGrid, textures, renderer, presets, params, qualityPreset,
                   quality, material, uniforms, root, pc, gen, reflection>>

WindowInputs ==
    {[innerWidth |-> 1280, innerHeight |-> 720], [innerWidth |-> 2, innerHeight |-> 1]}

\* A scale inside the clamp's range, one below it and one above it.
ResolutionScaleInputs == {100, 800, 2000}

\* The options of the GUI's reflection-quality control.
ReflectionQualityInputs == {"medium", "high", "ultra"}

\* Names the control does not offer: one that names no property at all,
\* one that names an inherited property.
OtherNameInputs == {"low", "constructor"}

CameraInputs == {Vec(2600, 9000, -1300), Vec(2600, 0, -1300), Vec(2600, -3000, -1300)}

RootPoseInputs ==
    {[position |-> Vec(0, 0, 0), up |-> Vec(0, 1000, 0)],
     [position |-> Vec(0, 0, 0), up |-> Vec(0, -1000, 0)]}

RendererInputs ==
    {DefaultRenderer,
     [DefaultRenderer EXCEPT !.renderTarget = "offscreen", !.xrEnabled = TRUE]}

InitReflection ==
    /\ fft = NULL
    /\ lodGrid = NULL
    /\ renderer \in RendererInputs
    /\ error = NoError
    /\ lastCall = Call("new PlanarReflectionPass", << >>)
    /\ presets = QUALITY_PRESETS
    /\ params = DEFAULT_PARAMS
    /\ qualityPreset = "balanced"
    /\ quality = QUALITY_PRESETS["balanced"]
    /\ material = [id |-> 0]
    /\ uniforms = createOceanMaterial(getDisplacementMap([id |-> 0]),
                                      getNormalMap([id |-> 0]), 980000, 0)
    /\ root \in {[children |-> {}, inScene |-> TRUE, visible |-> v] : v \in BOOLEAN}
    /\ pc = "idle"
    /\ gen = 0
    /\ live = {reflectionTexture}
    /\ disposeCalls = [r \in {} |-> 0]
    /\ textures = NULL
    /\ viewport = InitialViewport
    /\ reflection = NewPlanarReflectionPass(reflectionQualityScale("high"),
                                            viewport)

NextReflection ==
    \/ \E c \in CameraInputs, pose \in RootPoseInputs, u \in BOOLEAN :
          ReflectionUpdate(c, pose, u)
    \/ \E scale \in ResolutionScaleInputs : ReflectionSetResolutionScale(scale)
    \/ \E w \in WindowInputs : ReflectionResize(w)
    \/ ReflectionDispose
    \/ \E value \in ReflectionQualityInputs \cup OtherNameInputs :
          OnReflectionQualityChange(value)
    \/ \E w \in WindowInputs : ViewportResized(w)
    \/ OnResize

SpecReflection == InitReflection /\ [][NextReflection]_vars

----------------------------------------------------------------------------
(* App.jsx: the page's handlers around the reflection pass.  The browser   *)
(* runs each handler to its end; in one rendering update it dispatches the *)
(* resize event before it runs the animation-frame callbacks.              *)

\* tick of App.jsx, an animation-frame callback: the reflection update of
\* the frame, the camera standing where the controls have put it.
Tick(cameraPosition, rootPose) ==
    /\ ~viewport.resizePending
    /\ ReflectionUpdate(cameraPosition, rootPose, TRUE)

InitApp == InitReflection

NextApp ==
    \/ \E w \in WindowInputs : ViewportResized(w)
    \/ OnResize
    \/ \E value \in ReflectionQualityInputs : OnReflectionQualityChange(value)
    \/ \E c \in CameraInputs, pose \in RootPoseInputs : Tick(c, pose)

SpecApp == InitApp /\ [][NextApp]_vars

----------------------------------------------------------------------------
(* The App's frame: an OceanSystem and a PlanarReflectionPass together.     *)

\* App.jsx tick: oceanSystem.update, then planarReflectionPass.update with
\* the ocean's uniforms.
FrameTick(deltaTime, elapsedTime, cameraPosition, rootPose) ==
    /\ pc = "idle"
    /\ reflection # NULL
    /\ ~viewport.resizePending
    /\ lastCall' = Call("tick", UpdateArgs(deltaTime, elapsedTime, cameraPosition))
    /\ error' = NoError
    /\ LET before == Frame(fft, lodGrid, uniforms, reflection, renderer, root)
           updated == systemUpdate(before, deltaTime, elapsedTime, cameraPosition)
           after == reflectionUpdate(updated, cameraPosition, rootPose, TRUE)
       IN  /\ fft' = after.fft
           /\ lodGrid' = after.lodGrid
           /\ uniforms' = after.uniforms
           /\ reflection' = after.reflection
           /\ renderer' = after.renderer
           /\ root' = after.root
    /\ UNCHANGED <<viewport, textures, presets, params, qualityPreset, quality,
                   material, pc, gen, live, disposeCalls>>

FrameCameraInputs ==
    {Vec(2600, 9000, -1300), Vec(-700, 9000, 5200), Vec(2600, -3000, -1300)}

FrameDeltaTimeInputs == {4, 48}

FrameElapsedTimeInputs == {16}

\* App.jsx: the OceanSystem under construction and the reflection pass of
\* the "high" quality, the renderer bound to either target.
InitFrame ==
    /\ presets = QUALITY_PRESETS
    /\ params = DEFAULT_PARAMS
    /\ qualityPreset = "balanced"
    /\ quality = QUALITY_PRESETS["balanced"]
    /\ fft = NULL
    /\ lodGrid = NULL
    /\ material = NULL
    /\ uniforms = NULL
    /\ root = [children |-> {}, inScene |-> TRUE, visible |-> TRUE]
    /\ textures = NULL
    /\ viewport = InitialViewport
    /\ reflection = NewPlanarReflectionPass(reflectionQualityScale("high"),
                                            viewport)
    /\ pc = "rebuild:fft"
    /\ gen = 0
    /\ live = {reflectionTexture}
    /\ disposeCalls = [r \in {} |-> 0]
    /\ renderer \in RendererInputs
    /\ error = NoError
    /\ lastCall = Call("new OceanSystem", "balanced")

NextFrame ==
    \/ RebuildFFT
    \/ RebuildMaterial
    \/ RebuildLodGrid
    \/ RebuildApply
    \/ \E value \in ParamInputs["windSpeed"] : SetParam("windSpeed", value)
    \/ SetQualityPreset("performance")
    \/ \E deltaTime \in FrameDeltaTimeInputs, c \in FrameCameraInputs,
          pose \in RootPoseInputs, elapsedTime \in FrameElapsedTimeInputs :
            FrameTick(deltaTime, elapsedTime, c, pose)

SpecFrame == InitFrame /\ [][NextFrame]_vars

----------------------------------------------------------------------------
(* Properties of the OceanSystem.                                          *)

Rebuilding == pc # "idle"

\* The resource set of generation g, complete.
ResourceSet(g) ==
    FFTResources([id |-> g]) \cup MaterialResources([id |-> g])
        \cup {Resource("patchGeometry", g, i) : i \in 1 .. 25}

HoldsNothing ==
    fft = NULL /\ material = NULL /\ uniforms = NULL /\ lodGrid = NULL

\* fft, material, uniforms and lodGrid are all held and all of generation g.
HoldsSet(g) ==
    /\ fft # NULL /\ material # NULL /\ uniforms # NULL /\ lodGrid # NULL
    /\ fft.id = g /\ material.id = g /\ uniforms.id = g /\ lodGrid.id = g
    /\ uniforms.uDisplacementMap.owner = g
    /\ uniforms.uNormalMap.owner = g
    /\ lodGrid.material = g

\* C2: every preset has at least 2 level sizes, strictly increasing, and
\* every ring of the grid a rebuild built has a positive width: its strips
\* have positive extents and lie further out than the ring inside them.
C2_LevelSizesIncrease ==
    /\ \A p \in DOMAIN presets :
          /\ Len(presets[p].levelSizes) >= 2
          /\ \A i \in 1 .. Len(presets[p].levelSizes) - 1 :
                presets[p].levelSizes[i] < presets[p].levelSizes[i + 1]
    /\ lodGrid # NULL =>
          \A i \in 1 .. Len(lodGrid.levels) - 1 :
             LET strip == lodGrid.meshes[4 * (i - 1) + 2]
             IN  /\ strip.levelIndex = i
                 /\ strip.width > 0
                 /\ strip.height > 0
                 /\ 2 * (-strip.offsetZ) - lodGrid.levels[i] > 0

\* C2 witness: the grid of the cinematic preset, built and attached.
C2_Witness ==
    /\ pc = "idle"
    /\ qualityPreset = "cinematic"
    /\ lodGrid # NULL
    /\ Len(lodGrid.meshes) = 25
    /\ lodGrid.id \in root.children

\* C6 as stated: once a rebuild has failed, the system holds a complete
\* resource set or nothing.
C6_FailedRebuildLeavesNoPartialState ==
    (pc = "idle" /\ error \in {PowerOfTwoError, LevelSizesError})
        => (HoldsNothing \/ \E g \in 0 .. gen : HoldsSet(g))

\* C7: at most one resource set is live at any time; while rebuild
\* constructs, nothing of an older set is live or attached; and between
\* calls the system holds nothing or exactly the newest set, complete.
C7_RebuildIsAtomic ==
    /\ \A r1, r2 \in live : r1.owner = r2.owner
    /\ Rebuilding =>
          /\ \A r \in live : r.owner = gen
          /\ root.children \subseteq {gen}
    /\ ~Rebuilding =>
          \/ HoldsNothing /\ live = {} /\ root.children = {}
          \/ HoldsSet(gen) /\ live = ResourceSet(gen) /\ root.children = {gen}

\* C7 witness: the second preset change has completed.
C7_Witness ==
    /\ pc = "idle"
    /\ lastCall.op = "setQualityPreset"
    /\ gen = 2
    /\ HoldsSet(2)
    /\ ResourceSet(1) \subseteq DOMAIN disposeCalls

\* C8: setQualityPreset with the name of the active preset changes none of
\* fft, material, uniforms, lodGrid, and disposes and creates nothing.
C8_SamePresetIsNoOp ==
    [][(/\ pc = "idle"
        /\ lastCall'.op = "setQualityPreset"
        /\ lastCall'.args = qualityPreset)
            => UNCHANGED <<fft, material, uniforms, lodGrid, root, live,
                           disposeCalls, gen, pc>>]_vars

\* C8 witness: the active preset was selected again on a built system.
C8_Witness ==
    /\ pc = "idle"
    /\ lastCall.op = "setQualityPreset"
    /\ lastCall.args = qualityPreset
    /\ gen = 0
    /\ HoldsSet(0)

\* The keys C10 names.
ShadingKeys ==
    {"choppiness", "lodScale", "foamIntensity", "foamScale",
     "sunScatterStrength", "reflectionStrength", "reflectionDistortion"}

\* C10 as stated: setParam with one of these keys leaves the simulation's
\* spectrum-dirty flag, wind vector and domain size as they were.
C10_ShadingParamsKeepSpectrum ==
    [][(/\ pc = "idle"
        /\ lastCall'.op = "setParam"
        /\ lastCall'.args[1] \in ShadingKeys
        /\ fft # NULL)
            => /\ fft'.needsSpectrumInit = fft.needsSpectrumInit
               /\ fft'.windVector = fft.windVector
               /\ fft'.size = fft.size]_vars

----------------------------------------------------------------------------
(* Properties of the PlanarReflectionPass.                                 *)

\* C9: an update with the camera behind the reflection plane, that is with
\* (planePos - camPos) . normal > 0, renders nothing and leaves the
\* renderer's render target, XR flag and shadow auto-update flag, the
\* texture matrix, the reflection texture and the uniforms uReflectionMap
\* and uReflectionMatrix as they were.
C9_BackSideUpdateIsSkipped ==
    [][(/\ lastCall'.op = "reflection.update"
        /\ Dot(Sub(lastCall'.args.rootPose.position,
                   lastCall'.args.cameraPosition),
               lastCall'.args.rootPose.up) > 0)
            => /\ reflection'.renders = << >>
               /\ reflection'.renderTarget = reflection.renderTarget
               /\ reflection'.textureMatrix = reflection.textureMatrix
               /\ renderer' = renderer
               /\ uniforms'.uReflectionMap = uniforms.uReflectionMap
               /\ uniforms'.uReflectionMatrix = uniforms.uReflectionMatrix]_vars

\* C9 witness: a pass that had rendered and fed the uniforms was updated
\* from behind the plane of a visible root.
C9_Witness ==
    /\ lastCall.op = "reflection.update"
    /\ root.visible
    /\ lastCall.args.oceanUniforms
    /\ Dot(Sub(lastCall.args.rootPose.position, lastCall.args.cameraPosition),
           lastCall.args.rootPose.up) > 0
    /\ reflection.cameraWorldPosition = lastCall.args.cameraPosition
    /\ reflection.renderTarget.image.rendered
    /\ uniforms.uReflectionMap = reflectionTexture
    /\ renderer.xrEnabled

----------------------------------------------------------------------------
(* Parameters and presets reaching the live objects.                       *)

\* C11: between calls, the live simulation and grid reflect the latest
\* parameters and the active preset: wind speed floored at 0.01, wind
\* direction in radians, choppiness floored at 0, the preset's resolution
\* and size, and the grid's horizontal scale the lodScale clamped to
\* [0.5, 2.5].
C11_LiveObjectsReflectParams ==
    (pc = "idle" /\ fft # NULL /\ lodGrid # NULL) =>
        /\ fft.windSpeed = Max(10, params.windSpeed)
        /\ fft.windDirection = toRadians(params.windDirection)
        /\ fft.choppiness = Max(0, params.choppiness)
        /\ fft.resolution * 1000 = presets[qualityPreset].fftResolution
        /\ fft.size = presets[qualityPreset].simulationSize
        /\ lodGrid.scale.x = Max(500, Min(2500, params.lodScale))
        /\ lodGrid.scale.z = Max(500, Min(2500, params.lodScale))
        /\ lodGrid.scale.y = 1000

\* C11 witness: a preset change has rebuilt the system after every
\* parameter was moved off its default.
C11_Witness ==
    /\ pc = "idle"
    /\ lastCall.op = "setQualityPreset"
    /\ gen > 0
    /\ fft # NULL
    /\ fft.id = gen
    /\ qualityPreset = "performance"
    /\ params.windSpeed = 0
    /\ params.windDirection = 225
    /\ params.choppiness = -500
    /\ params.lodScale = 3000
    /\ lodGrid.scale.x = 2500

----------------------------------------------------------------------------
(* The grid following the camera.                                          *)

Abs(a) == IF a < 0 THEN -a ELSE a

\* C12 as stated: after OceanLODGrid.update(cameraPos) the origin's x and z
\* are multiples of the base cell size, each the nearest one to the
\* camera's coordinate, that is within half a cell of it.
C12_OriginIsNearestMultiple ==
    (lastCall.op = "lodGrid.update" /\ lodGrid # NULL) =>
        /\ lodGrid.position.x % lodGrid.baseCellSize = 0
        /\ lodGrid.position.z % lodGrid.baseCellSize = 0
        /\ 2 * Abs(lastCall.args.x - lodGrid.position.x) <= lodGrid.baseCellSize
        /\ 2 * Abs(lastCall.args.z - lodGrid.position.z) <= lodGrid.baseCellSize

----------------------------------------------------------------------------
(* The rings of the grid.                                                  *)

\* The patch covers the point (x, z) of the grid's plane.
Covers(patch, x, z) ==
    /\ 2 * Abs(x - patch.offsetX) <= patch.width
    /\ 2 * Abs(z - patch.offsetZ) <= patch.height

\* The coordinates of the ring boundaries of a grid and of the middle of
\* every ring, on either side of the origin.
BoundaryCoordinates(levels) ==
    LET half == {levels[k] \div 2 : k \in 1 .. Len(levels)}
        mid == {(levels[k] + levels[k + 1]) \div 4 : k \in 1 .. Len(levels) - 1}
    IN  {0} \cup half \cup mid \cup {-c : c \in half \cup mid}

\* C13: in a grid built from strictly increasing level sizes (every
\* preset's among them), the centre patch ends at levels[0]/2; the strips
\* of each ring start at the ring's inner half-size minus the ring's margin
\* and end at its outer half-size plus the margin, the margin within
\* [0, ringWidth/4]; the strips along x span the ring's whole outer side
\* and the strips along z its inner side, each widened by the margin; and
\* every boundary and mid-ring point of the outermost square lies on a patch.
C13_RingsAdjacent ==
    (/\ lastCall.op = "new OceanLODGrid"
     /\ lodGrid # NULL
     /\ StrictlyIncreasing(lastCall.args.levels)) =>
        LET levels == lodGrid.levels
            centre == lodGrid.meshes[1]
        IN  /\ Len(lodGrid.meshes) = 4 * (Len(levels) - 1) + 1
            /\ centre.width = levels[1] /\ centre.height = levels[1]
            /\ centre.offsetX = 0 /\ centre.offsetZ = 0
            /\ \A i \in 1 .. Len(levels) - 1 :
                  LET north == lodGrid.meshes[4 * (i - 1) + 2]
                      south == lodGrid.meshes[4 * (i - 1) + 3]
                      west == lodGrid.meshes[4 * (i - 1) + 4]
                      east == lodGrid.meshes[4 * (i - 1) + 5]
                      width == (levels[i + 1] - levels[i]) \div 2
                      margin == (north.height - width) \div 2
                  IN  /\ 0 <= margin /\ 4 * margin <= width
                      /\ 2 * (-north.offsetZ) - north.height = levels[i] - 2 * margin
                      /\ 2 * (-north.offsetZ) + north.height = levels[i + 1] + 2 * margin
                      /\ 2 * south.offsetZ - south.height = levels[i] - 2 * margin
                      /\ 2 * south.offsetZ + south.height = levels[i + 1] + 2 * margin
                      /\ 2 * (-west.offsetX) - west.width = levels[i] - 2 * margin
                      /\ 2 * (-west.offsetX) + west.width = levels[i + 1] + 2 * margin
                      /\ 2 * east.offsetX - east.width = levels[i] - 2 * margin
                      /\ 2 * east.offsetX + east.width = levels[i + 1] + 2 * margin
                      /\ north.offsetX = 0 /\ south.offsetX = 0
                      /\ west.offsetZ = 0 /\ east.offsetZ = 0
                      /\ north.width = levels[i + 1] + 2 * margin
                      /\ south.width = levels[i + 1] + 2 * margin
                      /\ west.height = levels[i] + 2 * margin
                      /\ east.height = levels[i] + 2 * margin
            /\ \A x, z \in BoundaryCoordinates(levels) :
                  \E k \in 1 .. Len(lodGrid.meshes) : Covers(lodGrid.meshes[k], x, z)

\* C13 witness: the grid of the cinematic preset, as the OceanSystem
\* constructs it.
C13_Witness ==
    /\ lastCall.op = "new OceanLODGrid"
    /\ lodGrid # NULL
    /\ lastCall.args.levels = QUALITY_PRESETS["cinematic"].levelSizes
    /\ lastCall.args.baseCellSize = QUALITY_PRESETS["cinematic"].baseCellSize
    /\ lastCall.args.ringOverlap = QUALITY_PRESETS["cinematic"].ringOverlap
    /\ Len(lodGrid.meshes) = 25

----------------------------------------------------------------------------
(* Properties of the simulation's textures.                                *)

InPhaseRange(texels) == \A bin \in DOMAIN texels : 0 <= texels[bin] /\ texels[bin] < TwoPi

\* C14: every value of the phase field lies in [0, 2*pi): the seed phases
\* and, after any number of updates with any time step, the phases of both
\* phase framebuffers.
C14_PhasesInRange ==
    textures # NULL =>
        /\ InPhaseRange(textures.pingPhaseTexture)
        /\ InPhaseRange(textures.pingPhaseFramebuffer.texels)
        /\ InPhaseRange(textures.pongPhaseFramebuffer.texels)

\* C14 witness: both framebuffers were written, and some phase wrapped
\* around 2*pi in the last step.
C14_Witness ==
    /\ textures # NULL
    /\ textures.pingPhaseFramebuffer.written
    /\ textures.pongPhaseFramebuffer.written
    /\ LET last == IF fft.pingPhase THEN textures.pingPhaseFramebuffer.texels
                                    ELSE textures.pongPhaseFramebuffer.texels
           before == IF fft.pingPhase THEN textures.pongPhaseFramebuffer.texels
                                      ELSE textures.pingPhaseFramebuffer.texels
       IN  \E bin \in DOMAIN last : last[bin] < before[bin]

\* C15: the assembly step reads h0 at its own bin and h0(-K) at bin
\* ((N - x) mod N, (N - y) mod N), whose signed index, in [-N/2, N/2), is
\* the negation modulo N of the bin's own, and conjugates it; and the DC
\* bin is zero in the initial and in the assembled spectrum.
C15_HermitianRead ==
    (textures # NULL /\ textures.spectrumFramebuffer.written) =>
        LET N == fft.resolution
            initial == textures.initialSpectrumFramebuffer.texels
            assembled == textures.spectrumFramebuffer.texels
        IN  /\ \A bin \in Bins(N) :
                  LET n == IF 2 * bin[1] < N THEN bin[1] ELSE bin[1] - N
                      m == IF 2 * bin[2] < N THEN bin[2] ELSE bin[2] - N
                      h0 == assembled[bin].h0
                      h0Star == assembled[bin].h0Star
                  IN  /\ h0.bin = bin /\ h0.index = <<n, m>> /\ ~h0.conjugated
                      /\ h0Star.bin = <<(N - bin[1]) % N, (N - bin[2]) % N>>
                      /\ h0Star.index[1] \in -(N \div 2) .. (N \div 2) - 1
                      /\ h0Star.index[2] \in -(N \div 2) .. (N \div 2) - 1
                      /\ (h0Star.index[1] + n) % N = 0
                      /\ (h0Star.index[2] + m) % N = 0
                      /\ h0Star.conjugated
                      /\ h0Star = [initial[h0Star.bin] EXCEPT !.conjugated = TRUE]
            /\ initial[<<0, 0>>].zero
            /\ assembled[<<0, 0>>].zero
            /\ \A bin \in Bins(N) \ {<<0, 0>>} :
                  ~initial[bin].zero /\ ~assembled[bin].zero

\* C15 witness: a 4 x 4 spectrum assembled from an initial spectrum that a
\* wind change had made it generate again.
C15_Witness ==
    /\ textures # NULL
    /\ fft.resolution = 4
    /\ textures.updates > 1
    /\ textures.spectrumFramebuffer.written
    /\ fft.windSpeed = 11000
    /\ textures.initialSpectrumFramebuffer.texels[<<1, 3>>].wind = fft.windVector
    /\ textures.spectrumFramebuffer.texels[<<0, 2>>].h0Star.bin = <<0, 2>>

\* C16: update(dt) accepts every dt: it runs all its passes, and the step
\* it keeps and the phase pass advances every phase by is dt clamped to
\* [1/240, 0.1], that is to [1, 24] ticks.
C16_DeltaTimeClamped ==
    (textures # NULL /\ lastCall.op = "update") =>
        LET dt == lastCall.args[1]
            clamped == IF dt < 1 THEN 1 ELSE IF dt > 24 THEN 24 ELSE dt
            written == IF fft.pingPhase THEN textures.pingPhaseFramebuffer.texels
                                        ELSE textures.pongPhaseFramebuffer.texels
            read == IF textures.updates = 1 THEN textures.pingPhaseTexture
                    ELSE IF fft.pingPhase THEN textures.pongPhaseFramebuffer.texels
                                          ELSE textures.pingPhaseFramebuffer.texels
        IN  /\ error = NoError
            /\ fft.deltaTime = clamped
            /\ fft.passes # << >>
            /\ fft.passes[Len(fft.passes)].pass = "normal"
            /\ \E i \in 1 .. Len(fft.passes) : fft.passes[i].pass = "phase"
            /\ \A bin \in Bins(fft.resolution) :
                  written[bin] =
                      (read[bin] + (omega(waveLength(bin, fft.resolution, fft.size))
                                        * clamped) \div 240) % TwoPi

\* C16 witness: an update with a negative step after one with a step
\* above the clamp.
C16_Witness ==
    /\ textures # NULL
    /\ lastCall.op = "update"
    /\ lastCall.args[1] < 0
    /\ textures.updates > 1
    /\ fft.deltaTime = 1
    /\ textures.pingPhaseFramebuffer.written

\* C17: after construction and after every setWind the stored wind speed is
\* max(0.01, requested speed), hence at least 0.01; the wind vector is that
\* speed times (cos, sin) of the stored direction and is never the zero
\* vector, also when it is handed to the initial-spectrum pass.
C17_WindSpeedClamped ==
    fft # NULL =>
        /\ fft.windSpeed >= 10
        /\ fft.windVector = <<(Cos(fft.windDirection) * fft.windSpeed) \div 1000,
                              (Sin(fft.windDirection) * fft.windSpeed) \div 1000>>
        /\ fft.windVector # <<0, 0>>
        /\ fft.initialSpectrum.generated => fft.initialSpectrum.wind # <<0, 0>>
        /\ lastCall.op = "setWind" =>
               /\ fft.windSpeed = Max(10, lastCall.args[1])
               /\ fft.windDirection = lastCall.args[2]
        /\ lastCall.op = "new OceanFFT" =>
               fft.windSpeed =
                   Max(10, optionalParameter(lastCall.args, "windSpeed", 12000))

\* A wind speed of 0 was requested, by the constructor's options or by
\* setWind, and the spectrum has been synthesised from the clamped wind.
C17_Witness ==
    /\ fft # NULL
    /\ fft.windSpeed = 10
    /\ fft.initialSpectrum.generated
    /\ fft.initialSpectrum.wind = fft.windVector
    /\ fft.windDirection = 2443

\* C18: a constructed OceanFFT never holds a negative choppiness, so the
\* u_choppiness the spectrum pass reads from it is never negative: neither
\* directly after construction, with any options, nor after setChoppiness
\* calls and updates.
C18_ChoppinessNonNegative ==
    fft # NULL => fft.choppiness >= 0

\* The scale a reflection-quality name stands for, as the claim gives it.
ExpectedQualityScale(value) ==
    CASE value = "medium" -> 550
      [] value = "high" -> 800
      [] value = "ultra" -> 1000
      [] OTHER -> 800

\* The reflection target has the size the window and the scale give.
TargetFitsViewport ==
    /\ reflection.renderTarget.width =
           Max(1, (viewport.innerWidth * reflection.resolutionScale) \div 1000)
    /\ reflection.renderTarget.height =
           Max(1, (viewport.innerHeight * reflection.resolutionScale) \div 1000)

\* C19 as stated: setResolutionScale(s) leaves the scale at s clamped to
\* [0.35, 1.25] and the target at max(1, floor(viewport * scale)) in both
\* dimensions; the names medium, high and ultra give the scales 0.55, 0.8
\* and 1.0, and every other name gives 0.8.
C19_EveryOtherNameGivesDefault ==
    /\ lastCall.op = "reflection.setResolutionScale" =>
           /\ reflection.resolutionScale = Max(350, Min(1250, lastCall.args[1]))
           /\ TargetFitsViewport
    /\ lastCall.op = "onReflectionQualityChange" =>
           /\ reflection.resolutionScale = ExpectedQualityScale(lastCall.args[1])
           /\ TargetFitsViewport

\* C19, amended: the same, where "every other name" is every other name
\* that names no property inherited from Object.prototype.
C19_ScaleClampedAndNamesMapped ==
    /\ lastCall.op = "reflection.setResolutionScale" =>
           /\ reflection.resolutionScale = Max(350, Min(1250, lastCall.args[1]))
           /\ TargetFitsViewport
    /\ (/\ lastCall.op = "onReflectionQualityChange"
        /\ lastCall.args[1] \notin ObjectPrototypeKeys) =>
           /\ reflection.resolutionScale = ExpectedQualityScale(lastCall.args[1])
           /\ TargetFitsViewport

\* A name the control does not offer has been mapped to 0.8 in a window two
\* pixels wide and one high: the target is one pixel in each dimension.
C19_Witness ==
    /\ lastCall.op = "onReflectionQualityChange"
    /\ lastCall.args[1] = "low"
    /\ viewport.innerWidth = 2
    /\ reflection.resolutionScale = 800
    /\ reflection.renderTarget.width = 1
    /\ reflection.renderTarget.height = 1

\* C20: however window resizes, reflection-quality changes and frames
\* interleave, each reflection update runs on a target whose width and
\* height are max(1, floor(window size * resolutionScale)) of the window
\* and the scale of that moment; the target fits whenever no resize event
\* is outstanding.
C20_TargetFitsAtEveryUpdate ==
    /\ lastCall.op = "reflection.update" => TargetFitsViewport
    /\ ~viewport.resizePending => TargetFitsViewport

\* A frame has been rendered into the target after the window was resized
\* to two pixels by one and the quality was set to ultra.
C20_Witness ==
    /\ lastCall.op = "reflection.update"
    /\ viewport.innerWidth = 2
    /\ viewport.innerHeight = 1
    /\ reflection.resolutionScale = 1000
    /\ reflection.renderTarget.width = 2
    /\ reflection.renderTarget.height = 1
    /\ reflection.renderTarget.image.rendered

----------------------------------------------------------------------------
(* Teardown.                                                               *)

\* Every resource of generation g has had dispose() called exactly once.
DisposedOnce(g) ==
    \A r \in ResourceSet(g) :
        /\ r \notin live
        /\ r \in DOMAIN disposeCalls
        /\ disposeCalls[r] = 1

\* C21: right after the teardown step of a rebuild and after dispose(),
\* fft, material, uniforms and lodGrid are null, no group is attached to
\* the root, no resource is live, and every resource of every set built
\* before (16 simulation resources, the ocean material, every patch
\* geometry) has been disposed exactly once; no resource is ever disposed
\* twice.
C21_ResourcesReleasedTogether ==
    /\ \A r \in DOMAIN disposeCalls : disposeCalls[r] = 1
    /\ pc = "rebuild:fft" =>
          /\ HoldsNothing
          /\ live = {}
          /\ root.children = {}
          /\ \A g \in 0 .. gen - 1 : DisposedOnce(g)
    /\ (pc = "idle" /\ lastCall.op = "dispose") =>
          /\ HoldsNothing
          /\ live = {}
          /\ root.children = {}
          /\ \A g \in 0 .. gen : DisposedOnce(g)

\* C21 witness: dispose() after a preset change: both sets are released.
C21_Witness ==
    /\ pc = "idle"
    /\ lastCall.op = "dispose"
    /\ gen = 1
    /\ DisposedOnce(0)
    /\ DisposedOnce(1)
    /\ Cardinality(ResourceSet(1)) = 42

----------------------------------------------------------------------------
(* The render passes of OceanFFT.update.                                   *)

IsTransformPass(p) == p.pass \in {"horizontal", "vertical"}

\* The transform passes of the last update, in the order they were issued.
TransformPasses == SelectSeq(fft.passes, IsTransformPass)

Updated == fft # NULL /\ fft.passes # << >>

\* C22: the transform passes of an update form one chain: the first reads
\* the assembled spectrum, every later pass reads exactly the buffer the
\* pass before it wrote, and the last writes the displacement map, for
\* every power-of-two resolution.
C22_TransformPassesChain ==
    Updated =>
        LET chain == TransformPasses
        IN  /\ Len(chain) = 2 * Log2(fft.resolution)
            /\ chain[1].inputs = {"spectrum"}
            /\ \A j \in 2 .. Len(chain) : chain[j].inputs = {chain[j - 1].target}
            /\ chain[Len(chain)].target = "displacementMap"

\* C23: no pass of an update reads the buffer it renders into, whatever the
\* resolution and however many updates came before, and an update flips
\* the phase toggle exactly once.
C23_NoPassReadsItsTarget ==
    /\ [](Updated => \A i \in 1 .. Len(fft.passes) :
                        fft.passes[i].target \notin fft.passes[i].inputs)
    /\ [][(fft # NULL /\ lastCall'.op = "update")
              => fft'.pingPhase = ~fft.pingPhase]_vars

\* C23 witness: a later update of a simulation of resolution 128 has read
\* the pong phase buffer and written the ping one, and has run its 14
\* transform passes.
C23_Witness ==
    /\ Updated
    /\ lastCall.op = "update"
    /\ fft.resolution = 128
    /\ Len(TransformPasses) = 14
    /\ \E i \in 1 .. Len(fft.passes) :
          /\ fft.passes[i].pass = "phase"
          /\ fft.passes[i].inputs = {"pongPhase"}
          /\ fft.passes[i].target = "pingPhase"

\* The pass of that name among the passes of the simulation's last update.
PassNamed(sim, name) ==
    sim.passes[CHOOSE i \in 1 .. Len(sim.passes) : sim.passes[i].pass = name]

PhaseBuffers == {"pingPhase", "pongPhase"}

\* C24: the first update of a simulation reads the seed phase texture and
\* no later one does; the phase pass of every later update reads the
\* buffer the update before wrote and writes the other one; and the
\* spectrum pass of an update reads the buffer its own phase pass wrote.
C24_PhaseContinuity ==
    [][(fft # NULL /\ lastCall'.op = "update") =>
          LET phase == PassNamed(fft', "phase")
              spectrum == PassNamed(fft', "spectrum")
          IN  /\ phase.target \in PhaseBuffers
              /\ spectrum.inputs = {"initialSpectrum", phase.target}
              /\ IF fft.passes = << >>
                 THEN phase.inputs = {"seedPhase"}
                 ELSE /\ phase.inputs = {PassNamed(fft, "phase").target}
                      /\ phase.target \in PhaseBuffers \ phase.inputs]_vars

\* C24 witness: the third update has read the ping buffer the second wrote
\* and handed the pong buffer to the spectrum pass.
C24_Witness ==
    /\ Updated
    /\ lastCall.op = "update"
    /\ PassNamed(fft, "phase").inputs = {"pingPhase"}
    /\ PassNamed(fft, "phase").target = "pongPhase"
    /\ PassNamed(fft, "spectrum").inputs = {"initialSpectrum", "pongPhase"}
    /\ ~fft.pingPhase

\* The last update regenerated the initial spectrum.
Regenerated(sim) ==
    \E i \in 1 .. Len(sim.passes) : sim.passes[i].pass = "initialSpectrum"

\* C25: needsSpectrumInit is set by construction, setWind and setSize and
\* cleared only by update; update regenerates the initial spectrum exactly
\* when the flag is set; the flag is clear after every update, and while it
\* is clear the initial spectrum is the one generated from the current wind
\* vector and domain size, which is what every spectrum pass reads.
C25_DirtyFlagGatesRegeneration ==
    /\ [](fft # NULL =>
            /\ lastCall.op \in {"new OceanFFT", "setWind", "setSize"}
                  => fft.needsSpectrumInit
            /\ lastCall.op = "update" => ~fft.needsSpectrumInit
            /\ ~fft.needsSpectrumInit =>
                  /\ fft.initialSpectrum.generated
                  /\ fft.initialSpectrum.wind = fft.windVector
                  /\ fft.initialSpectrum.size = fft.size)
    /\ [][fft # NULL =>
            /\ lastCall'.op = "update"
                  => (Regenerated(fft') <=> fft.needsSpectrumInit)
            /\ (fft.needsSpectrumInit /\ ~fft'.needsSpectrumInit)
                  => lastCall'.op = "update"]_vars

\* C25 witness: an update found the flag clear and regenerated nothing,
\* after an earlier one had regenerated the spectrum for a changed size.
C25_Witness ==
    /\ Updated
    /\ lastCall.op = "update"
    /\ ~Regenerated(fft)
    /\ fft.size = 32000
    /\ fft.initialSpectrum.size = 32000

\* n times the same pass name.
Repeat(name, n) == [i \in 1 .. n |-> name]

\* The pass names of an update of a simulation of that resolution.
PassOrder(resolution, dirty) ==
    (IF dirty THEN <<"initialSpectrum">> ELSE << >>)
        \o <<"phase", "spectrum">>
        \o Repeat("horizontal", Log2(resolution))
        \o Repeat("vertical", Log2(resolution))
        \o <<"normal">>

\* C26: every update issues its passes in one order: the initial spectrum
\* first, exactly when the simulation was dirty, then phase, spectrum, the
\* horizontal and the vertical transform passes and the normal pass, none
\* missing; the normal pass reads the displacement map the last transform
\* pass of the same update wrote.
C26_PassesInFixedOrder ==
    /\ [](Updated =>
            /\ [i \in 1 .. Len(fft.passes) |-> fft.passes[i].pass]
                  = PassOrder(fft.resolution, Regenerated(fft))
            /\ fft.passes[Len(fft.passes)].inputs = {"displacementMap"}
            /\ fft.passes[Len(fft.passes) - 1].target = "displacementMap")
    /\ [][(fft # NULL /\ lastCall'.op = "update") =>
            [i \in 1 .. Len(fft'.passes) |-> fft'.passes[i].pass]
                = PassOrder(fft.resolution, fft.needsSpectrumInit)]_vars

\* C26 witness: a dirty update of a simulation of resolution 256 has run
\* its 20 passes.
C26_Witness ==
    /\ Updated
    /\ lastCall.op = "update"
    /\ fft.resolution = 256
    /\ Regenerated(fft)
    /\ Len(fft.passes) = 20
    /\ fft.initialized

\* For each power-of-two resolution N up to 512, whether in every pass
\* (sub-transform sizes 2, 4, ..., N) every output index reads its even
\* sample at an index in [0, N/2) and its odd sample N/2 further on.
ButterflyIndexesInRange ==
    [N \in {2 ^ k : k \in 1 .. 9} |->
        \A j \in 1 .. Log2(N), index \in 0 .. N - 1 :
            LET even == evenIndex(index, 2 ^ j)
                odd == oddIndex(index, 2 ^ j, N)
            IN  /\ 0 <= even
                /\ even < N \div 2
                /\ odd = even + N \div 2
                /\ odd < N]

\* C27: for every power-of-two resolution N the transform issues log2(N)
\* horizontal passes and then log2(N) vertical ones, the j-th pass of each
\* direction with sub-transform size 2^j; in each of them every output
\* index reads its even sample at an index in [0, N/2) and its odd sample
\* N/2 further on.
C27_TransformPassCountAndSizes ==
    Updated =>
        LET chain == TransformPasses
            n == Log2(fft.resolution)
        IN  /\ fft.resolution = 2 ^ n
            /\ n >= 1
            /\ Len(chain) = 2 * n
            /\ \A j \in 1 .. n :
                  /\ chain[j].pass = "horizontal"
                  /\ chain[j].subtransformSize = 2 ^ j
                  /\ chain[n + j].pass = "vertical"
                  /\ chain[n + j].subtransformSize = 2 ^ j
            /\ ButterflyIndexesInRange[fft.resolution]

\* C27 witness: a simulation of resolution 512 has run its 9 horizontal and
\* 9 vertical passes, the last with sub-transform size 512.
C27_Witness ==
    /\ Updated
    /\ fft.resolution = 512
    /\ Len(TransformPasses) = 18
    /\ TransformPasses[9].pass = "horizontal"
    /\ TransformPasses[18].subtransformSize = 512
    /\ evenIndex(511, 512) = 255

----------------------------------------------------------------------------
(* The reflection render.                                                  *)

\* C28: an update of the reflection pass that is not skipped renders the
\* scene exactly once, into the reflection target, with the ocean root
\* hidden during that render; a skipped update renders nothing; and on
\* every return the root's visibility and the renderer's render target,
\* XR flag and shadow auto-update flag are what they were on entry.
C28_RenderOnceAndRestore ==
    [][lastCall'.op = "reflection.update" =>
          LET behind == Dot(Sub(lastCall'.args.rootPose.position,
                                lastCall'.args.cameraPosition),
                            lastCall'.args.rootPose.up) > 0
              skipped == ~root.visible \/ behind
          IN  /\ root'.visible = root.visible
              /\ renderer'.renderTarget = renderer.renderTarget
              /\ renderer'.xrEnabled = renderer.xrEnabled
              /\ renderer'.shadowAutoUpdate = renderer.shadowAutoUpdate
              /\ skipped => reflection'.renders = << >>
              /\ ~skipped =>
                    /\ Len(reflection'.renders) = 1
                    /\ reflection'.renders[1].target = "reflectionTarget"
                    /\ ~reflection'.renders[1].rootVisible
                    /\ ~reflection'.renders[1].xrEnabled
                    /\ ~reflection'.renders[1].shadowAutoUpdate]_vars

\* C28 witness: a frame was rendered from in front of the plane while an
\* offscreen target was bound and XR was enabled; both are back.
C28_Witness ==
    /\ lastCall.op = "reflection.update"
    /\ Len(reflection.renders) = 1
    /\ ~reflection.renders[1].rootVisible
    /\ root.visible
    /\ renderer.renderTarget = "offscreen"
    /\ renderer.xrEnabled
    /\ renderer.shadowAutoUpdate

----------------------------------------------------------------------------
(* What OceanFFT.update leaves behind.                                     *)

\* C29: an update of the simulation, dirty or clean, returns with the
\* render target bound that was bound when it was called and with no
\* override material on the simulation scene, and getDisplacementMap and
\* getNormalMap return the same texture objects after it as before.
C29_UpdateLeavesRendererAsFound ==
    [][(fft # NULL /\ lastCall'.op = "update") =>
          /\ renderer' = renderer
          /\ fft'.passes[Len(fft'.passes)].target # renderer'.renderTarget
          /\ fft'.overrideMaterial = "none"
          /\ getDisplacementMap(fft') = getDisplacementMap(fft)
          /\ getNormalMap(fft') = getNormalMap(fft)]_vars

\* C29 witness: a clean update has returned to a host that had an
\* offscreen target bound.
C29_Witness ==
    /\ Updated
    /\ lastCall.op = "update"
    /\ ~Regenerated(fft)
    /\ renderer.renderTarget = "offscreen"
    /\ fft.overrideMaterial = "none"

----------------------------------------------------------------------------
(* The three per-frame updates.                                             *)

\* The frames the three updates leave, one for each order of running them.
FrameOrders(s, deltaTime, elapsedTime, cameraPosition, rootPose) ==
    LET S(x) == simulationUpdate(x, deltaTime, elapsedTime)
        L(x) == gridUpdate(x, cameraPosition)
        R(x) == reflectionUpdate(x, cameraPosition, rootPose, TRUE)
    IN  {R(L(S(s))), L(R(S(s))), R(S(L(s))), S(R(L(s))), L(S(R(s))), S(L(R(s)))}

FrameReady ==
    /\ pc = "idle"
    /\ fft # NULL
    /\ uniforms # NULL
    /\ lodGrid # NULL
    /\ reflection # NULL

\* C30: from any state of a built ocean, the simulation update, the grid
\* update and the reflection update leave the same frame (simulation,
\* grid, reflection pass, uniforms, renderer, root) in each of their six
\* orders, and that frame is the one a tick leaves.
C30_UpdatesOrderInsensitive ==
    /\ [](FrameReady =>
            \A deltaTime \in FrameDeltaTimeInputs, c \in FrameCameraInputs,
               pose \in RootPoseInputs, elapsedTime \in FrameElapsedTimeInputs :
                  Cardinality(FrameOrders(
                      Frame(fft, lodGrid, uniforms, reflection, renderer, root),
                      deltaTime, elapsedTime, c, pose)) = 1)
    /\ [][(FrameReady /\ lastCall'.op = "tick") =>
            \E pose \in RootPoseInputs :
                FrameOrders(
                    Frame(fft, lodGrid, uniforms, reflection, renderer, root),
                    lastCall'.args.deltaTime, lastCall'.args.elapsedTime,
                    lastCall'.args.cameraPosition, pose)
                = {Frame(fft', lodGrid', uniforms', reflection', renderer', root')}]_vars

\* A tick has run the three updates on a built ocean bound to an offscreen
\* target: the simulation advanced, the grid moved off its origin and the
\* reflection was rendered.
C30_Witness ==
    /\ FrameReady
    /\ lastCall.op = "tick"
    /\ fft.passes # << >>
    /\ lodGrid.position.x # 0
    /\ reflection.renders # << >>
    /\ renderer.renderTarget = "offscreen"
====
